---- MODULE Spec2Model ----
(***************************************************************************)
(* A model of the categorical-sectional weather map: the METAR cache and   *)
(* rate limiter of data_sources/weather.py (get_metars, fetch_metars,      *)
(* __is_cache_valid__, __set_cache__, __is_station_ok_to_call__,           *)
(* is_daylight, is_night, get_twilight_transition) run by several threads, *)
(* the twilight functions of data_sources/weather2.py, and the render loop *)
(* and __get_dimmed_color__ of                                             *)
(* controller.py (render_thread and the __main__ block around it).         *)
(*                                                                         *)
(* Time is counted in whole minutes since the module was imported.         *)
(* Station codes are the integers 1..n.  Every call is made with           *)
(* use_cache drawn from UseCacheValues.                                    *)
(***************************************************************************)
EXTENDS Integers, Sequences, FiniteSets, TLC

\* ------------------------------------------------------------- bounds
NumThreads == 2
NumStations == 2
MaxList == 2
MaxCalls == 2
MaxTime == 2
MaxCodes == 41
MaxTicks == 3
NumPixels == 2
NumVisualizers == 2
MaxLateTime == 9
MaxLateCalls == 2
MaxClock == 3
TwilightLen == 2
MaxDay == 8
MaxConditions == 2
MaxChannel == 255
NumChannels == 3
BrightnessSteps == 4
PosMargin == 3

\* -------------------------------------------------- program constants
\* for i in range(0, len(airport_icao_codes), 20)
ChunkSize == 20
\* cache_life_in_minutes: int = 8
CacheLifeMinutes == 8
\* return time_since_last_call > 1.0
RateLimitMinutes == 1
\* (datetime.utcnow() - debug_pixels_timer).total_seconds() > 60.0
DebugPixelsSeconds == 60
\* if hours_since_sunrise > 24
StaleSunriseHours == 24
\* configuration.get_metar_station_inactive_minutes()
InactiveMinutes == 60
\* the default current_time of get_metar_age: utcnow() when the def ran
ImportTime == 0

Threads == 1..NumThreads
Stations == 1..NumStations
NoThread == 0
UseCacheValues == {TRUE}

\* INVALID = 'INVALID': the one value of a METAR slot that is a str
INVALID == [kind |-> "str"]
\* Python's None
None == [kind |-> "None"]
\* one element of resp['data']: a dict with 'icao' and, when has_raw_text,
\* 'raw_text'
Metar(icao, has_raw_text) ==
    [kind |-> "dict", icao |-> icao, raw_text |-> has_raw_text]
\* isinstance(x, str)
IsStr(x) == x.kind = "str"

\* ------------------------------------------------------------ helpers
Range(s) == {s[i] : i \in 1..Len(s)}

Min(a, b) == IF a < b THEN a ELSE b

\* a Python dict as a function on its keys
EmptyDict == << >>
DictSet(d, k, v) == [x \in (DOMAIN d) \cup {k} |-> IF x = k THEN v ELSE d[x]]

\* the key order of a dict after d[k] = v (insertion order, kept on update)
KeysAfterSet(keys, k) == IF k \in Range(keys) THEN keys ELSE Append(keys, k)

\* sequences over S of length at most n
SeqsUpTo(S, n) == UNION {[1..m -> S] : m \in 0..n}

\* sequences over S without repetition
IsInjective(s) == \A i, j \in 1..Len(s) : i # j => s[i] # s[j]
Orderings(S) == {s \in SeqsUpTo(S, Cardinality(S)) : IsInjective(s)}

\* the station lists a caller may pass: up to MaxList distinct codes
CodeLists == {s \in SeqsUpTo(Stations, MaxList) : IsInjective(s)}

\* airport_icao_codes[i:i + 20], with i counted from 0
Slice(codes, i) == SubSeq(codes, i + 1, Min(i + ChunkSize, Len(codes)))

VARIABLES
    now,                  \* datetime.utcnow() / time.perf_counter(), minutes
    cache_lock,           \* __cache_lock__: the thread holding it, or NoThread
    metar_report_cache,   \* __metar_report_cache__: code -> <<timestamp, data>>
    station_last_called,  \* __station_last_called__: code -> time
    station_info,         \* __station_info__: code -> dict, or tuple once set
    th,                   \* per thread: position and locals of its call
    calls_left,           \* calls that may still be started
    last_request,         \* code -> time of the latest outbound METAR request
    rt,                   \* render_thread: position and locals
    visualizer_index,     \* configuration.get_visualizer_index()
    pixels,               \* renderer.pixels
    proc                  \* the controller process: debug host, GPIO, exit

vars == <<now, cache_lock, metar_report_cache, station_last_called,
          station_info, th, calls_left, last_request, rt, visualizer_index,
          pixels, proc>>

weather_vars == <<cache_lock, metar_report_cache, station_last_called,
                  station_info, th, calls_left, last_request>>

render_vars == <<rt, visualizer_index, pixels, proc>>

\* the locals of a thread that is not inside a call
Locals0 ==
    [pc |-> "idle", op |-> "none",
     airport_icao_codes |-> << >>, use_cache |-> TRUE, idx |-> 0,
     cache_valid |-> FALSE, report |-> None,
     metars |-> EmptyDict, ids_to_fetch |-> << >>,
     fcodes |-> << >>, i |-> 0, ret_metars |-> EmptyDict, ret_keys |-> << >>,
     requests |-> << >>, failed_chunks |-> {},
     new_metars |-> EmptyDict, nm_keys |-> << >>, k |-> 0, icao |-> << >>,
     station |-> 0, at_time |-> 0, fn |-> "none", light_times |-> None,
     starting_color |-> << >>, brightness_adjustment |-> <<1, 1>>,
     pos |-> 0, cache |-> None, result |-> None]

\* ---------------------------------------------------------------------
\* data_sources/weather.py: the METAR cache
\* ---------------------------------------------------------------------

\* the code the loop of get_metars is at
CurrentId(l) == l.airport_icao_codes[l.idx]

\* a lookup that still takes an entry of exactly the cache life as valid
CacheLookupInclusive(code, cache, at) ==
    IF code \in DOMAIN cache
    THEN IF at - cache[code][1] <= CacheLifeMinutes
         THEN <<TRUE, cache[code][2]>>
         ELSE <<FALSE, cache[code][2]>>
    ELSE <<FALSE, None>>

\* lines 177-192 of __is_cache_valid__: (is valid, cached value)
CacheLookup(code, cache, at) ==
    IF code \in DOMAIN cache
    THEN IF at - cache[code][1] < CacheLifeMinutes
         THEN <<TRUE, cache[code][2]>>
         ELSE <<FALSE, cache[code][2]>>
    ELSE <<FALSE, None>>

\* __is_station_ok_to_call__
IsStationOkToCall(code, last_called, at) ==
    IF code \notin DOMAIN last_called
    THEN TRUE
    ELSE at - last_called[code] > RateLimitMinutes

\* line 432: the cached report is used instead of a fetch
UsesCache(use_cache, cache_valid, report, is_ready_to_call) ==
    use_cache /\ cache_valid /\ report # None /\ ~is_ready_to_call

\* what the provider may answer to a request for the codes of chunk: a list
\* of reports, for requested or other stations, in any order, each with or
\* without its raw_text; for a long chunk, all of it, all but its first
\* code, or nothing
ResponseData(chunk) ==
    IF Range(chunk) \subseteq Stations
    THEN UNION {[1..Len(o) -> BOOLEAN] \X {o} : o \in Orderings(Stations)}
    ELSE {<<[j \in 1..Len(chunk) |-> TRUE], chunk>>,
          <<[j \in 1..(Len(chunk) - 1) |-> TRUE], Tail(chunk)>>,
          <<<< >>, << >>>>}

\* resp['data'] for one answer
DataOf(answer) ==
    [j \in 1..Len(answer[2]) |-> Metar(answer[2][j], answer[1][j])]

\* how a request can end: a 2xx answer with a body that parses, a non-2xx
\* status (raise_for_status raises HTTPError), requests.get itself raising
\* (connection error, timeout), or a body json.loads cannot parse
Outcomes == {"ok", "HTTPError", "ConnectionError", "malformed"}

\* the answers a request for chunk can get with the given outcome
Answers(outcome, chunk) ==
    IF outcome = "ok" THEN ResponseData(chunk) ELSE {<<<< >>, << >>>>}

\* the outcomes that the except clause of line 492 catches
CaughtInFetch(outcome) == outcome = "HTTPError"

\* lines 489-491: for airport in resp['data']: ret_metars[icao] = airport
RECURSIVE StoreAll(_, _, _)
StoreAll(d, keys, data) ==
    IF data = << >>
    THEN [d |-> d, keys |-> keys]
    ELSE StoreAll(DictSet(d, Head(data).icao, Head(data)),
                  KeysAfterSet(keys, Head(data).icao), Tail(data))

\* lines 495-499: the codes that were not retrieved become INVALID
RECURSIVE FillInvalid(_, _, _)
FillInvalid(d, keys, codes) ==
    IF codes = << >>
    THEN [d |-> d, keys |-> keys]
    ELSE IF Head(codes) \in DOMAIN d
         THEN FillInvalid(d, keys, Tail(codes))
         ELSE FillInvalid(DictSet(d, Head(codes), INVALID),
                          Append(keys, Head(codes)), Tail(codes))

\* line 496: if len(ret_metars) != len(airport_icao_codes)
Returned(d, keys, codes) ==
    IF Cardinality(DOMAIN d) # Len(codes)
    THEN FillInvalid(d, keys, codes)
    ELSE [d |-> d, keys |-> keys]

\* where an exception that leaves fetch_metars is handled: the except clause
\* of get_metars (line 456), or the caller of fetch_metars
AfterFetchRaised(l) == IF l.op = "get_metars" THEN "gm_except" ELSE "raised"

\* line 423: the next code, or on to fetch_metars(ids_to_fetch) at line 442
GetMetarsFor(l) ==
    IF l.idx <= Len(l.airport_icao_codes)
    THEN [l EXCEPT !.pc = "icv_acquire"]
    ELSE [l EXCEPT !.pc = "fm_for", !.fcodes = l.ids_to_fetch, !.i = 0]

\* lines 495-500: fetch_metars returns; in get_metars the result becomes
\* new_metars and the loop of line 444 starts
FetchReturn(l) ==
    LET ret == Returned(l.ret_metars, l.ret_keys, l.fcodes)
    IN IF l.op = "get_metars"
       THEN [l EXCEPT !.pc = "nm_for", !.new_metars = ret.d,
                      !.nm_keys = ret.keys, !.k = 1,
                      !.ret_metars = EmptyDict, !.ret_keys = << >>]
       ELSE [l EXCEPT !.pc = "returned", !.ret_metars = ret.d,
                      !.ret_keys = ret.keys]

\* lines 444-452: the next key of new_metars; a report without raw_text
\* raises KeyError at line 450; line 461 when the keys are used up
GetMetarsProcess(l) ==
    LET nm == l.nm_keys[l.k]
    IN IF l.k > Len(l.nm_keys)
       THEN [l EXCEPT !.pc = "returned"]
       ELSE IF IsStr(l.new_metars[nm])
       THEN [l EXCEPT !.pc = "nm_invalid"]
       ELSE IF ~l.new_metars[nm].raw_text
       THEN [l EXCEPT !.pc = "gm_except", !.icao = <<l.new_metars[nm].icao>>]
       ELSE [l EXCEPT !.pc = "set_last_called",
                      !.icao = <<l.new_metars[nm].icao>>,
                      !.metars = DictSet(@, l.new_metars[nm].icao,
                                         l.new_metars[nm])]

\* lines 456-461: except Exception: metars[icao] = INVALID; icao is a local
\* of the try block, unbound until the loop has reached a report
GetMetarsExcept(l) ==
    IF l.icao = << >>
    THEN [l EXCEPT !.pc = "raised"]
    ELSE [l EXCEPT !.pc = "returned",
                   !.metars = DictSet(@, l.icao[1], INVALID)]

\* the positions whose next step reads and writes only the thread's locals
IsLocal(l) ==
    \/ l.pc \in {"gm_for", "nm_for", "gm_except"}
    \/ l.pc = "fm_for" /\ l.i >= Len(l.fcodes)

\* a thread runs on through the steps on its own locals, up to its next
\* step on shared state, its next request, or the end of its call
RECURSIVE Run(_)
Run(l) ==
    IF ~IsLocal(l) THEN l
    ELSE Run(CASE l.pc = "gm_for" -> GetMetarsFor(l)
               [] l.pc = "fm_for" -> FetchReturn(l)
               [] l.pc = "nm_for" -> GetMetarsProcess(l)
               [] l.pc = "gm_except" -> GetMetarsExcept(l))

Set(t, l) == th' = [th EXCEPT ![t] = Run(l)]

\* get_metars(airport_icao_codes, use_cache) is called: lines 420-421
GetMetarsCall(t, codes, use_cache) ==
    /\ th[t].pc = "idle"
    /\ calls_left > 0
    /\ calls_left' = calls_left - 1
    /\ Set(t, [Locals0 EXCEPT !.pc = "gm_for", !.op = "get_metars",
                              !.airport_icao_codes = codes,
                              !.use_cache = use_cache, !.idx = 1])
    /\ UNCHANGED <<now, cache_lock, metar_report_cache, station_last_called,
                   station_info, last_request, render_vars>>

\* __is_cache_valid__, line 172: __cache_lock__.acquire(); the cache passed
\* at line 428 is the module's dict, never None
IsCacheValidAcquire(t) ==
    /\ th[t].pc = "icv_acquire"
    /\ cache_lock = NoThread
    /\ cache_lock' = t
    /\ Set(t, [th[t] EXCEPT !.pc = "icv_read"])
    /\ UNCHANGED <<now, metar_report_cache, station_last_called,
                   station_info, calls_left, last_request, render_vars>>

\* a return that skips the release and leaves the lock with the caller
LockKept(t) == t

\* the lock after __is_cache_valid__ has run its finally clause (line 190)
ReleasedLock(t) == NoThread

\* __is_cache_valid__, lines 177-192: the read, and the release in finally
IsCacheValidRead(t) ==
    /\ th[t].pc = "icv_read"
    /\ LET got == CacheLookup(CurrentId(th[t]), metar_report_cache, now)
       IN Set(t, [th[t] EXCEPT !.pc = "ok_to_call",
                               !.cache_valid = got[1], !.report = got[2]])
    /\ cache_lock' = ReleasedLock(t)
    /\ UNCHANGED <<now, metar_report_cache, station_last_called,
                   station_info, calls_left, last_request, render_vars>>

\* lines 429-438: __is_station_ok_to_call__(id), then the choice between the
\* cached report and the fetch list
GetMetarsChoose(t) ==
    /\ th[t].pc = "ok_to_call"
    /\ LET id == CurrentId(th[t])
           is_ready_to_call == IsStationOkToCall(id, station_last_called, now)
       IN IF UsesCache(th[t].use_cache, th[t].cache_valid, th[t].report,
                       is_ready_to_call)
          THEN Set(t, [th[t] EXCEPT !.pc = "use_cached"])
          ELSE Set(t, [th[t] EXCEPT !.pc = "gm_for", !.idx = @ + 1,
                                    !.ids_to_fetch = Append(@, id),
                                    !.cache_valid = FALSE, !.report = None])
    /\ UNCHANGED <<now, cache_lock, metar_report_cache, station_last_called,
                   station_info, calls_left, last_request, render_vars>>

\* line 434: metars[id] = __metar_report_cache__[id][1]
GetMetarsUseCached(t) ==
    /\ th[t].pc = "use_cached"
    /\ LET id == CurrentId(th[t])
       IN Set(t, [th[t] EXCEPT !.pc = "gm_for", !.idx = @ + 1,
                     !.metars = DictSet(@, id, metar_report_cache[id][2]),
                     !.cache_valid = FALSE, !.report = None])
    /\ UNCHANGED <<now, cache_lock, metar_report_cache, station_last_called,
                   station_info, calls_left, last_request, render_vars>>

\* fetch_metars(codes) is called on its own with the codes 1..n
FetchMetarsCall(t, n) ==
    /\ th[t].pc = "idle"
    /\ calls_left > 0
    /\ calls_left' = calls_left - 1
    /\ Set(t, [Locals0 EXCEPT !.pc = "fm_for", !.op = "fetch_metars",
                              !.fcodes = [j \in 1..n |-> j]])
    /\ UNCHANGED <<now, cache_lock, metar_report_cache, station_last_called,
                   station_info, last_request, render_vars>>

\* lines 480-484: the next chunk's request goes out
FetchSend(t) ==
    /\ th[t].pc = "fm_for"
    /\ LET chunk == Slice(th[t].fcodes, th[t].i)
       IN /\ Set(t, [th[t] EXCEPT !.pc = "in_flight",
                                  !.requests = Append(@, chunk)])
          /\ last_request' =
                 [c \in (DOMAIN last_request) \cup Range(chunk)
                    |-> IF c \in Range(chunk) THEN now ELSE last_request[c]]
    /\ UNCHANGED <<now, cache_lock, metar_report_cache, station_last_called,
                   station_info, calls_left, render_vars>>

\* lines 484-493: the request ends
FetchReceive(t, outcome) ==
    /\ th[t].pc = "in_flight"
    /\ \E answer \in Answers(outcome, th[t].requests[Len(th[t].requests)]) :
       LET l == th[t]
           failed == IF outcome = "ok" THEN l.failed_chunks
                     ELSE l.failed_chunks \cup {Len(l.requests)}
           stored == StoreAll(l.ret_metars, l.ret_keys, DataOf(answer))
       IN IF outcome = "ok"
          THEN Set(t, [l EXCEPT !.pc = "fm_for", !.i = @ + ChunkSize,
                                !.ret_metars = stored.d,
                                !.ret_keys = stored.keys])
          ELSE IF CaughtInFetch(outcome)
          THEN Set(t, [l EXCEPT !.pc = "fm_for", !.i = @ + ChunkSize,
                                !.failed_chunks = failed])
          ELSE Set(t, [l EXCEPT !.pc = AfterFetchRaised(l),
                                !.failed_chunks = failed])
    /\ UNCHANGED <<now, cache_lock, metar_report_cache, station_last_called,
                   station_info, calls_left, last_request, render_vars>>

\* an INVALID result stored like a report
CacheStoresInvalid(cache, nm, at) == DictSet(cache, nm, <<at, INVALID>>)

\* lines 446-447: an INVALID result is logged and nothing is stored
CacheAfterInvalid(cache, nm, at) == cache

\* lines 446-447, for a key of new_metars whose value is INVALID
GetMetarsInvalid(t) ==
    /\ th[t].pc = "nm_invalid"
    /\ metar_report_cache' =
           CacheAfterInvalid(metar_report_cache, th[t].nm_keys[th[t].k], now)
    /\ Set(t, [th[t] EXCEPT !.pc = "nm_for", !.k = @ + 1])
    /\ UNCHANGED <<now, cache_lock, station_last_called, station_info,
                   calls_left, last_request, render_vars>>

\* line 454: __station_last_called__[icao] = datetime.utcnow()
GetMetarsSetLastCalled(t) ==
    /\ th[t].pc = "set_last_called"
    /\ station_last_called' = DictSet(station_last_called, th[t].icao[1], now)
    /\ Set(t, [th[t] EXCEPT !.pc = "sc_acquire"])
    /\ UNCHANGED <<now, cache_lock, metar_report_cache, station_info,
                   calls_left, last_request, render_vars>>

\* __set_cache__, line 147: __cache_lock__.acquire()
SetCacheAcquire(t) ==
    /\ th[t].pc = "sc_acquire"
    /\ cache_lock = NoThread
    /\ cache_lock' = t
    /\ Set(t, [th[t] EXCEPT !.pc = "sc_write"])
    /\ UNCHANGED <<now, metar_report_cache, station_last_called,
                   station_info, calls_left, last_request, render_vars>>

\* __set_cache__, lines 148-151, called at line 455 for the METAR cache:
\* cache[station_icao_code] = (datetime.utcnow(), value), then the release
SetCacheWriteMetar(t) ==
    /\ th[t].pc = "sc_write"
    /\ th[t].op = "get_metars"
    /\ LET l == th[t]
           nm == l.nm_keys[l.k]
       IN /\ metar_report_cache' =
                 DictSet(metar_report_cache, l.icao[1], <<now, l.new_metars[nm]>>)
          /\ Set(t, [l EXCEPT !.pc = "nm_for", !.k = @ + 1])
    /\ cache_lock' = NoThread
    /\ UNCHANGED <<now, station_last_called, station_info, calls_left,
                   last_request, render_vars>>

\* the caller takes the result (or the exception) and the call is over
Finish(t) ==
    /\ th[t].pc \in {"returned", "raised"}
    /\ Set(t, Locals0)
    /\ UNCHANGED <<now, cache_lock, metar_report_cache, station_last_called,
                   station_info, calls_left, last_request, render_vars>>

\* the positions at which a thread waits: for a call, a request or the lock
Waiting(l) ==
    l.pc \in {"idle", "in_flight", "sun_in_flight", "icv_acquire",
              "sc_acquire", "lock_acquire"}

\* a minute passes while every thread waits (the steps in between take no
\* time on this scale)
Tick ==
    /\ now < MaxTime
    /\ \A t \in Threads : Waiting(th[t])
    /\ now' = now + 1
    /\ UNCHANGED <<weather_vars, render_vars>>

\* ---------------------------------------------------------------------
\* is_daylight and the station data it refreshes
\* ---------------------------------------------------------------------

\* one entry of the dict __fetch_airport_data__ returns (lines 111-120),
\* with the fields is_daylight reads, in minutes
SunInfo(sunrise) ==
    [kind |-> "dict", sunrise |-> sunrise,
     full_light_start |-> sunrise + 25, full_light_end |-> sunrise + 600]

\* the sunrises the provider may report: more than a day ago, an hour ago,
\* a few minutes ahead
SunInfos == {SunInfo(0 - 1500), SunInfo(0 - 60), SunInfo(4)}

\* line 125: the station data fetched when the module is imported; the
\* first station's sunrise is still ahead, the others' an hour past
ImportedInfo(s) == IF s = 1 THEN SunInfo(4) ELSE SunInfo(0 - 60)

Bool(b) == [kind |-> "bool", value |-> b]

\* lines 214-215: hours_since_sunrise < 0
SunriseAhead(lsi, at_time) == at_time - lsi.sunrise < 0

\* a test that forgets the rule for data more than a day old
DaylightIgnoresAge(lsi, at_time) ==
    lsi.full_light_start < at_time /\ at_time < lsi.full_light_end

\* a test that counts the instant of full_light_start itself as daylight
DaylightFromStart(lsi, at_time) ==
    IF at_time - lsi.sunrise > StaleSunriseHours * 60
    THEN TRUE
    ELSE lsi.full_light_start <= at_time /\ at_time < lsi.full_light_end

\* lines 220-229, for station data that is a dict
DaylightAnswer(lsi, at_time) ==
    IF at_time - lsi.sunrise > StaleSunriseHours * 60
    THEN TRUE
    ELSE lsi.full_light_start < at_time /\ at_time < lsi.full_light_end

\* a pair of proportions, the value get_twilight_transition returns
Pair(p_off_to_night, p_night_to_color) ==
    [kind |-> "tuple", p_off_to_night |-> p_off_to_night,
     p_night_to_color |-> p_night_to_color]

\* a float that is a ratio of whole minutes: <<numerator, denominator>> in
\* lowest terms
RECURSIVE GCD(_, _)
GCD(a, b) == IF b = 0 THEN a ELSE GCD(b, a % b)
Ratio(n, d) == LET g == GCD(n, d) IN <<n \div g, d \div g>>

\* the floats 0.0 and 1.0
Zero == <<0, 1>>
One == <<1, 1>>

\* 1.0 - q
OneMinus(q) == Ratio(q[2] - q[1], q[2])

\* what follows the answer b of is_daylight: its caller gets it, or lines
\* 334-337 of get_twilight_transition return the Daylight pair or go on to
\* ask is_night
AfterDaylight(l, b) ==
    IF l.op = "get_twilight_transition"
    THEN IF b
         THEN [l EXCEPT !.pc = "returned", !.result = Pair(Zero, One)]
         ELSE [l EXCEPT !.pc = "nt_start"]
    ELSE [l EXCEPT !.pc = "returned", !.result = Bool(b)]

\* is_daylight(station, current_utc_time) is called
IsDaylightCall(t, station, at_time) ==
    /\ th[t].pc = "idle"
    /\ calls_left > 0
    /\ calls_left' = calls_left - 1
    /\ Set(t, [Locals0 EXCEPT !.pc = "dl_start", !.op = "is_daylight",
                              !.station = station, !.at_time = at_time])
    /\ UNCHANGED <<now, cache_lock, metar_report_cache, station_last_called,
                   station_info, last_request, render_vars>>

\* lines 210-229: lsi = __station_info__[station], a KeyError for a station
\* that is not a key; a tuple stored by
\* __set_cache__ has no 'sunrise' (TypeError at line 214); a sunrise ahead
\* of the time asked about sends the suntimes request of line 94
IsDaylightStart(t) ==
    /\ th[t].pc = "dl_start"
    /\ LET l == th[t]
           lsi == station_info[l.station]
       IN IF l.station \notin DOMAIN station_info
          THEN Set(t, [l EXCEPT !.pc = "raised"])
          ELSE IF lsi.kind = "tuple"
          THEN Set(t, [l EXCEPT !.pc = "raised"])
          ELSE IF SunriseAhead(lsi, l.at_time)
          THEN Set(t, [l EXCEPT !.pc = "sun_in_flight",
                                !.fn = "is_daylight"])
          ELSE Set(t, AfterDaylight(l, DaylightAnswer(lsi, l.at_time)))
    /\ UNCHANGED <<now, cache_lock, metar_report_cache, station_last_called,
                   station_info, calls_left, last_request, render_vars>>

\* how the suntimes request of __fetch_airport_data__ can end: with the
\* station in the answer, or without it (KeyError at line 217), or with an
\* error (HTTPError leaves resp unbound at line 101; the others propagate)
SunOutcomes == {"ok", "missing", "HTTPError", "ConnectionError", "malformed"}

\* lines 94-121 and 216: the suntimes request ends
SunReceive(t, outcome, info) ==
    /\ th[t].pc = "sun_in_flight"
    /\ IF outcome = "ok"
       THEN Set(t, [th[t] EXCEPT !.pc = "sc_acquire", !.result = info])
       ELSE Set(t, [th[t] EXCEPT !.pc = "raised"])
    /\ UNCHANGED <<now, cache_lock, metar_report_cache, station_last_called,
                   station_info, calls_left, last_request, render_vars>>

\* the functions of weather.py that read __station_info__
TwilightOps == {"is_daylight", "is_night", "get_twilight_transition"}

\* where __set_cache__ returns to: line 218 of is_daylight or line 258 of
\* is_night
AfterSetCache(l) == IF l.fn = "is_night" THEN "nt_after" ELSE "dl_after"

\* __set_cache__, lines 148-151, called at lines 217 and 257 for
\* __station_info__:
\* the station's entry becomes the tuple (datetime.utcnow(), value)
SetCacheWriteInfo(t) ==
    /\ th[t].pc = "sc_write"
    /\ th[t].op \in TwilightOps
    /\ station_info' =
           [station_info EXCEPT ![th[t].station] =
                [kind |-> "tuple", timestamp |-> now, data |-> th[t].result]]
    /\ Set(t, [th[t] EXCEPT !.pc = AfterSetCache(th[t]), !.result = None])
    /\ cache_lock' = NoThread
    /\ UNCHANGED <<now, metar_report_cache, station_last_called, calls_left,
                   last_request, render_vars>>

\* lines 218-229: lsi = __station_info__[station], now the tuple, and
\* lsi['full_light_start'] raises TypeError
IsDaylightAfter(t) ==
    /\ th[t].pc = "dl_after"
    /\ LET l == th[t]
           lsi == station_info[l.station]
       IN IF lsi.kind = "tuple"
          THEN Set(t, [l EXCEPT !.pc = "raised"])
          ELSE Set(t, AfterDaylight(l, DaylightAnswer(lsi, l.at_time)))
    /\ UNCHANGED <<now, cache_lock, metar_report_cache, station_last_called,
                   station_info, calls_left, last_request, render_vars>>

\* ---------------------------------------------------------------------
\* is_night and get_twilight_transition of weather.py
\* ---------------------------------------------------------------------

\* a test that forgets the rule for data more than a day old
NightIgnoresAge(si, at_time) ==
    at_time < si.sunrise \/ at_time > si.dusk

\* lines 260-268, for station data that is a dict
NightAnswer(si, at_time) ==
    IF at_time - si.sunrise > StaleSunriseHours * 60
    THEN FALSE
    ELSE at_time < si.sunrise \/ at_time > si.dusk

\* what follows the answer b of is_night: its caller gets it, or lines
\* 337-344 of get_twilight_transition return the Night pair or go on to
\* the interpolation
AfterNight(l, b) ==
    IF l.op = "get_twilight_transition"
    THEN IF b
         THEN [l EXCEPT !.pc = "returned", !.result = Pair(Zero, Zero)]
         ELSE [l EXCEPT !.pc = "tw_mix"]
    ELSE [l EXCEPT !.pc = "returned", !.result = Bool(b)]

\* is_night(station, current_utc_time) is called
IsNightCall(t, station, at_time) ==
    /\ th[t].pc = "idle"
    /\ calls_left > 0
    /\ calls_left' = calls_left - 1
    /\ Set(t, [Locals0 EXCEPT !.pc = "nt_start", !.op = "is_night",
                              !.station = station, !.at_time = at_time])
    /\ UNCHANGED <<now, cache_lock, metar_report_cache, station_last_called,
                   station_info, last_request, render_vars>>

\* lines 249-268: si = __station_info__[station], a KeyError for a station
\* that is not a key; a tuple has no 'sunrise' (TypeError at line 253); a
\* sunrise ahead of the time asked about sends the suntimes request
IsNightStart(t) ==
    /\ th[t].pc = "nt_start"
    /\ LET l == th[t]
           si == station_info[l.station]
       IN IF l.station \notin DOMAIN station_info
          THEN Set(t, [l EXCEPT !.pc = "raised"])
          ELSE IF si.kind = "tuple"
          THEN Set(t, [l EXCEPT !.pc = "raised"])
          ELSE IF SunriseAhead(si, l.at_time)
          THEN Set(t, [l EXCEPT !.pc = "sun_in_flight", !.fn = "is_night"])
          ELSE Set(t, AfterNight(l, NightAnswer(si, l.at_time)))
    /\ UNCHANGED <<now, cache_lock, metar_report_cache, station_last_called,
                   station_info, calls_left, last_request, render_vars>>

\* lines 258-268: si = __station_info__[station], now the tuple, and
\* si['sunrise'] raises TypeError at line 265
IsNightAfter(t) ==
    /\ th[t].pc = "nt_after"
    /\ LET l == th[t]
           si == station_info[l.station]
       IN IF si.kind = "tuple"
          THEN Set(t, [l EXCEPT !.pc = "raised"])
          ELSE Set(t, AfterNight(l, NightAnswer(si, l.at_time)))
    /\ UNCHANGED <<now, cache_lock, metar_report_cache, station_last_called,
                   station_info, calls_left, last_request, render_vars>>

\* get_twilight_transition(station, current_utc_time) is called; line 334
\* asks is_daylight first
TransitionCall(t, station, at_time) ==
    /\ th[t].pc = "idle"
    /\ calls_left > 0
    /\ calls_left' = calls_left - 1
    /\ Set(t, [Locals0 EXCEPT !.pc = "dl_start",
                              !.op = "get_twilight_transition",
                              !.station = station, !.at_time = at_time])
    /\ UNCHANGED <<now, cache_lock, metar_report_cache, station_last_called,
                   station_info, last_request, render_vars>>

\* lines 343-375: asi = __station_info__[station][DATA].  The dict stored
\* at import has no key 1 (DATA), and the KeyError is answered with
\* (0.0, 1.0).  The data of a tuple stored by __set_cache__ holds naive
\* datetimes (strptime, line 72), and line 350 compares one of them with
\* the aware current_utc_time: TypeError
TransitionInterpolate(t) ==
    /\ th[t].pc = "tw_mix"
    /\ LET l == th[t]
           entry == station_info[l.station]
       IN IF l.station \notin DOMAIN station_info
          THEN Set(t, [l EXCEPT !.pc = "returned", !.result = Pair(Zero, One)])
          ELSE IF entry.kind = "dict"
          THEN Set(t, [l EXCEPT !.pc = "returned", !.result = Pair(Zero, One)])
          ELSE Set(t, [l EXCEPT !.pc = "raised"])
    /\ UNCHANGED <<now, cache_lock, metar_report_cache, station_last_called,
                   station_info, calls_left, last_request, render_vars>>

\* ---------------------------------------------------------------------
\* controller.py: render_thread and the loop of __main__ around it
\* ---------------------------------------------------------------------

\* the colours a pixel can show
Colors == 0..1
Buffers == [0..(NumPixels - 1) -> Colors]

\* renderer.clear()
Cleared == [p \in 0..(NumPixels - 1) |-> 0]

\* render_thread before its first statement
Render0 ==
    [pc |-> "start", tic |-> 0, toc |-> 0, delta_time |-> 0,
     last_visualizer |-> 0, index |-> 0, timer |-> << >>, ticks |-> 0,
     fault_tick |-> 0, cleared |-> FALSE, snapshot |-> FALSE,
     lines |-> << >>]

\* lines 152-156: tic, toc, debug_pixels_timer = None, last_visualizer = 0
RenderStart ==
    /\ proc.state = "running"
    /\ rt.pc = "start"
    /\ rt' = [rt EXCEPT !.pc = "head", !.tic = now, !.toc = now,
                        !.timer = << >>, !.last_visualizer = 0]
    /\ UNCHANGED <<now, weather_vars, visualizer_index, pixels, proc>>

\* a loop that never sees the visualizer change
NeverChanged(index, last_visualizer) == FALSE

\* line 167: if visualizer_index != last_visualizer
VisualizerChanged(index, last_visualizer) == index # last_visualizer

\* lines 159-169: delta_time = toc - tic; tic = time.perf_counter(); the
\* visualizer index is read and the renderer cleared if it has changed
RenderHead ==
    /\ proc.state = "running"
    /\ rt.pc = "head"
    /\ rt.ticks < MaxTicks
    /\ rt' = [rt EXCEPT !.pc = "update", !.delta_time = rt.toc - rt.tic,
                        !.tic = now, !.index = visualizer_index,
                        !.last_visualizer = visualizer_index,
                        !.cleared = VisualizerChanged(visualizer_index,
                                                      rt.last_visualizer),
                        !.snapshot = FALSE, !.lines = << >>,
                        !.ticks = @ + 1]
    /\ pixels' = IF VisualizerChanged(visualizer_index, rt.last_visualizer)
                 THEN Cleared ELSE pixels
    /\ UNCHANGED <<now, weather_vars, visualizer_index, proc>>

\* lines 171-173: VISUALIZERS[visualizer_index].update(renderer, delta_time)
\* sets pixels as it likes and returns, or raises after setting some
RenderUpdate(buffer, raises) ==
    /\ proc.state = "running"
    /\ rt.pc = "update"
    /\ pixels' = buffer
    /\ rt' = IF raises
             THEN [rt EXCEPT !.pc = "except", !.fault_tick = rt.ticks]
             ELSE [rt EXCEPT !.pc = "debug"]
    /\ UNCHANGED <<now, weather_vars, visualizer_index, proc>>

\* a snapshot on every tick
ShowsEveryTick(timer, at) == TRUE

\* lines 175-176: show_debug_pixels
ShowDebugPixels(timer, at) ==
    timer = << >> \/ (at - timer[1]) * 60 > DebugPixelsSeconds

\* line 140: the name "UNK" of an LED without a station, no station's code
UNK == 0

\* line 59: airport_render_config, the LED of each station; LED 0 has no
\* station
airport_render_config == [s \in Stations |-> s]

\* lines 124-140: get_station_by_led, the first station of that LED or "UNK"
GetStationByLed(index) ==
    IF \E s \in Stations : airport_render_config[s] = index
    THEN CHOOSE s \in Stations :
             /\ airport_render_config[s] = index
             /\ \A u \in Stations :
                    airport_render_config[u] = index => s <= u
    ELSE UNK

\* lines 179-184: one line '[station/index]=color' for each pixel
DebugLines(buffer) ==
    [i \in 1..NumPixels |->
        [station |-> GetStationByLed(i - 1), index |-> i - 1,
         color |-> buffer[i - 1]]]

\* lines 175-188: the snapshot of the pixels when it is due, then toc
RenderDebug ==
    /\ proc.state = "running"
    /\ rt.pc = "debug"
    /\ rt' = [rt EXCEPT !.pc = "head", !.toc = now,
                 !.snapshot = ShowDebugPixels(rt.timer, now),
                 !.lines = IF ShowDebugPixels(rt.timer, now)
                           THEN DebugLines(pixels) ELSE << >>,
                 !.timer = IF ShowDebugPixels(rt.timer, now)
                           THEN <<now>> ELSE @]
    /\ UNCHANGED <<now, weather_vars, visualizer_index, pixels, proc>>

\* a handler that lets the fault end the loop
FaultEndsLoop(r) == [r EXCEPT !.pc = "break"]

\* lines 191-194: except Exception: the fault is logged and the loop goes on
AfterFault(r) == [r EXCEPT !.pc = "head"]

RenderExcept ==
    /\ proc.state = "running"
    /\ rt.pc = "except"
    /\ rt' = AfterFault(rt)
    /\ UNCHANGED <<now, weather_vars, visualizer_index, pixels, proc>>

\* the positions inside the try block of lines 159-188
InTry(r) == r.pc \in {"head", "update", "debug"}

\* Ctrl-C. Inside the try block: except KeyboardInterrupt: quit() (lines
\* 189-190), and the SystemExit that quit() raises is not caught by the
\* except KeyboardInterrupt of line 288, so the process ends there.
\* Elsewhere in render_thread the KeyboardInterrupt reaches line 288: break.
KeyboardInterrupt ==
    /\ proc.state = "running"
    /\ rt.pc \in {"start", "head", "update", "debug", "except"}
    /\ IF InTry(rt)
       THEN /\ rt' = [rt EXCEPT !.pc = "quit"]
            /\ proc' = [proc EXCEPT !.state = "exited", !.interrupted = TRUE]
       ELSE /\ rt' = [rt EXCEPT !.pc = "break"]
            /\ proc' = [proc EXCEPT !.interrupted = TRUE]
    /\ UNCHANGED <<now, weather_vars, visualizer_index, pixels>>

\* lines 291-292: if not local_debug.is_debug(): GPIO.cleanup()
MainCleanup ==
    /\ proc.state = "running"
    /\ rt.pc = "break"
    /\ rt' = [rt EXCEPT !.pc = "done"]
    /\ proc' = [proc EXCEPT !.state = "exited",
                            !.gpio_clean = ~proc.is_debug]
    /\ UNCHANGED <<now, weather_vars, visualizer_index, pixels>>

\* the configuration server sets another visualizer
SetVisualizer(v) ==
    /\ proc.state = "running"
    /\ v # visualizer_index
    /\ visualizer_index' = v
    /\ UNCHANGED <<now, weather_vars, rt, pixels, proc>>

\* ---------------------------------------------------------------------
\* specifications
\* ---------------------------------------------------------------------

InitWeather ==
    /\ now = 0
    /\ cache_lock = NoThread
    /\ metar_report_cache = EmptyDict
    /\ station_last_called = EmptyDict
    /\ station_info = [s \in Stations |-> ImportedInfo(s)]
    /\ th = [t \in Threads |-> Locals0]
    /\ calls_left = MaxCalls
    /\ last_request = EmptyDict
    /\ rt = Render0
    /\ visualizer_index = 0
    /\ pixels = Cleared
    /\ proc = [is_debug |-> FALSE, gpio_clean |-> FALSE, state |-> "running",
               interrupted |-> FALSE]

NextWeather ==
    \/ \E t \in Threads, codes \in CodeLists,
          use_cache \in UseCacheValues : GetMetarsCall(t, codes, use_cache)
    \/ \E t \in Threads : IsCacheValidAcquire(t)
    \/ \E t \in Threads : IsCacheValidRead(t)
    \/ \E t \in Threads : GetMetarsChoose(t)
    \/ \E t \in Threads : GetMetarsUseCached(t)
    \/ \E t \in Threads : FetchSend(t)
    \/ \E t \in Threads, outcome \in Outcomes : FetchReceive(t, outcome)
    \/ \E t \in Threads : GetMetarsInvalid(t)
    \/ \E t \in Threads : GetMetarsSetLastCalled(t)
    \/ \E t \in Threads : SetCacheAcquire(t)
    \/ \E t \in Threads : SetCacheWriteMetar(t)
    \/ \E t \in Threads, station \in Stations, at_time \in {0, now} :
          IsDaylightCall(t, station, at_time)
    \/ \E t \in Threads : IsDaylightStart(t)
    \/ \E t \in Threads, outcome \in SunOutcomes, info \in SunInfos :
          SunReceive(t, outcome, info)
    \/ \E t \in Threads : SetCacheWriteInfo(t)
    \/ \E t \in Threads : IsDaylightAfter(t)
    \/ \E t \in Threads : Finish(t)
    \/ Tick

SpecWeather == InitWeather /\ [][NextWeather]_vars

\* fetch_metars on its own, on the lists 1..n
InitFetch ==
    /\ now = 0
    /\ cache_lock = NoThread
    /\ metar_report_cache = EmptyDict
    /\ station_last_called = EmptyDict
    /\ station_info = [s \in Stations |-> ImportedInfo(s)]
    /\ th = [t \in Threads |-> Locals0]
    /\ calls_left = 1
    /\ last_request = EmptyDict
    /\ rt = Render0
    /\ visualizer_index = 0
    /\ pixels = Cleared
    /\ proc = [is_debug |-> FALSE, gpio_clean |-> FALSE, state |-> "running",
               interrupted |-> FALSE]

NextFetch ==
    \/ \E t \in Threads, n \in 0..MaxCodes : FetchMetarsCall(t, n)
    \/ \E t \in Threads : FetchSend(t)
    \/ \E t \in Threads, outcome \in Outcomes : FetchReceive(t, outcome)
    \/ \E t \in Threads : Finish(t)

SpecFetch == InitFetch /\ [][NextFetch]_vars

\* the render loop, the configuration server and Ctrl-C
InitRender ==
    /\ now = 0
    /\ cache_lock = NoThread
    /\ metar_report_cache = EmptyDict
    /\ station_last_called = EmptyDict
    /\ station_info = [s \in Stations |-> ImportedInfo(s)]
    /\ th = [t \in Threads |-> Locals0]
    /\ calls_left = 0
    /\ last_request = EmptyDict
    /\ rt = Render0
    /\ visualizer_index \in 0..(NumVisualizers - 1)
    /\ pixels \in Buffers
    /\ proc \in {[is_debug |-> d, gpio_clean |-> FALSE, state |-> "running",
                  interrupted |-> FALSE] : d \in BOOLEAN}

NextRender ==
    \/ RenderStart
    \/ RenderHead
    \/ \E buffer \in Buffers, raises \in BOOLEAN : RenderUpdate(buffer, raises)
    \/ RenderDebug
    \/ RenderExcept
    \/ KeyboardInterrupt
    \/ MainCleanup
    \/ \E v \in 0..(NumVisualizers - 1) : SetVisualizer(v)
    \/ Tick

SpecRender == InitRender /\ [][NextRender]_vars

\* the thread of __main__
MainThreads == {t \in Threads : \A u \in Threads : t <= u}

\* ---------------------------------------------------------------------
\* is_daylight asked by one thread about any station data and any time, and
\* the records
\* __fetch_airport_data__ computes from the provider's times
\* ---------------------------------------------------------------------

\* timedelta.seconds (line 109): the part of a difference below one day
Seconds(delta) == delta % (24 * 60)

\* lines 103-120: the record of one station, from the provider's times
TwilightRecord(dawn, sunrise, sunset, dusk) ==
    LET sunrise_length == sunrise - dawn
        sunset_length == dusk - sunset
        avg_transition_time ==
            (Seconds(sunrise_length) + Seconds(sunset_length)) \div 2
    IN [kind |-> "dict", dawn |-> dawn, sunrise |-> sunrise,
        sunset |-> sunset, dusk |-> dusk,
        full_light_start |-> sunrise + avg_transition_time,
        full_light_end |-> sunset - avg_transition_time]

\* the provider's well-formed times <<dawn, sunrise, sunset, dusk>>, those
\* whose two twilights have a whole number of minutes as their mean
ProviderTimes ==
    {p \in (0..MaxClock) \X (0..MaxClock) \X (0..MaxClock) \X (0..MaxClock) :
        /\ p[1] <= p[2] /\ p[2] <= p[3] /\ p[3] <= p[4]
        /\ ((p[2] - p[1]) + (p[4] - p[3])) % 2 = 0}

\* the records a suntimes request can bring
FetchedInfos == {TwilightRecord(p[1], p[2], p[3], p[4]) : p \in ProviderTimes}

\* the times is_daylight is asked about: at, just before and just after
\* each boundary of each record
AtTimes ==
    UNION {{i.sunrise + d, i.full_light_start + d, i.full_light_end + d} :
              i \in SunInfos, d \in {0 - 1, 0, 1}}

InitSun ==
    /\ now = 0
    /\ cache_lock = NoThread
    /\ metar_report_cache = EmptyDict
    /\ station_last_called = EmptyDict
    /\ station_info \in [Stations -> SunInfos]
    /\ th = [t \in Threads |-> Locals0]
    /\ calls_left = MaxCalls
    /\ last_request = EmptyDict
    /\ rt = Render0
    /\ visualizer_index = 0
    /\ pixels = Cleared
    /\ proc = [is_debug |-> FALSE, gpio_clean |-> FALSE, state |-> "running",
               interrupted |-> FALSE]

NextSun ==
    \/ \E t \in MainThreads, station \in Stations, at_time \in AtTimes :
          IsDaylightCall(t, station, at_time)
    \/ \E t \in MainThreads : IsDaylightStart(t)
    \/ \E t \in MainThreads, outcome \in SunOutcomes, info \in FetchedInfos :
          SunReceive(t, outcome, info)
    \/ \E t \in MainThreads : SetCacheAcquire(t)
    \/ \E t \in MainThreads : SetCacheWriteInfo(t)
    \/ \E t \in MainThreads : IsDaylightAfter(t)
    \/ \E t \in MainThreads : Finish(t)

SpecSun == InitSun /\ [][NextSun]_vars

\* ---------------------------------------------------------------------
\* is_daylight, is_night and get_twilight_transition of weather.py asked by
\* one thread about any station, configured or not, and any time of the day
\* ---------------------------------------------------------------------

\* the record of a day whose dawn is at the given minute: each twilight
\* lasts TwilightLen, and the sun is up for three times as long
DayRecord(dawn) ==
    TwilightRecord(dawn, dawn + TwilightLen, dawn + 4 * TwilightLen,
                   dawn + 5 * TwilightLen)

\* line 125: the records fetched at import: of a day long past, of the day
\* that has begun, of the day still ahead
DayRecords ==
    {DayRecord(0 - 1500), DayRecord(0 - TwilightLen), DayRecord(MaxClock + 1)}

\* the stations a caller may name: those of the configuration, and one
\* that is not in it
QueriedStations == Stations \cup {NumStations + 1}

\* the times asked about: every minute from just before dawn to just after
\* dusk of each day, and one more than a day after any sunrise fetched
TwilightTimes ==
    UNION {(r.dawn - 1)..(r.dusk + 1) : r \in DayRecords}
        \cup {StaleSunriseHours * 60 + MaxClock + 1}

InitTwilight ==
    /\ now = 0
    /\ cache_lock = NoThread
    /\ metar_report_cache = EmptyDict
    /\ station_last_called = EmptyDict
    /\ station_info \in [Stations -> DayRecords]
    /\ th = [t \in Threads |-> Locals0]
    /\ calls_left = MaxCalls
    /\ last_request = EmptyDict
    /\ rt = Render0
    /\ visualizer_index = 0
    /\ pixels = Cleared
    /\ proc = [is_debug |-> FALSE, gpio_clean |-> FALSE, state |-> "running",
               interrupted |-> FALSE]

NextTwilight ==
    \/ \E t \in MainThreads, station \in QueriedStations,
          at_time \in TwilightTimes : IsDaylightCall(t, station, at_time)
    \/ \E t \in MainThreads, station \in QueriedStations,
          at_time \in TwilightTimes : IsNightCall(t, station, at_time)
    \/ \E t \in MainThreads, station \in QueriedStations,
          at_time \in TwilightTimes : TransitionCall(t, station, at_time)
    \/ \E t \in MainThreads : IsDaylightStart(t)
    \/ \E t \in MainThreads : IsNightStart(t)
    \/ \E t \in MainThreads, outcome \in SunOutcomes, info \in FetchedInfos :
          SunReceive(t, outcome, info)
    \/ \E t \in MainThreads : SetCacheAcquire(t)
    \/ \E t \in MainThreads : SetCacheWriteInfo(t)
    \/ \E t \in MainThreads : IsDaylightAfter(t)
    \/ \E t \in MainThreads : IsNightAfter(t)
    \/ \E t \in MainThreads : TransitionInterpolate(t)
    \/ \E t \in MainThreads : Finish(t)

SpecTwilight == InitTwilight /\ [][NextTwilight]_vars

\* ---------------------------------------------------------------------
\* weather2.py: is_daylight, is_night and get_twilight_transition, which
\* take the list get_civil_twilight returns
\* ---------------------------------------------------------------------

\* a Python list
List(items) == [kind |-> "list", items |-> items]

\* light_times[k], with k counted from 0
Item(light_times, k) == light_times.items[k + 1]

\* weather2.py lines 283-293: the list get_civil_twilight builds from the
\* provider's times
CivilTwilight(sunrise_start, sunrise, sunset, sunset_end) ==
    LET sunrise_length == sunrise - sunrise_start
        sunset_length == sunset_end - sunset
        avg_transition_time ==
            (Seconds(sunrise_length) + Seconds(sunset_length)) \div 2
    IN List(<<sunrise_start, sunrise, sunrise + avg_transition_time,
              sunset - avg_transition_time, sunset, sunset_end>>)

\* weather2.py lines 233-251, as called at lines 326 and 366 for the day
\* before: the cache entry that get_twilight_transition has just read or
\* written is still valid, and the cached list is returned
CachedCivilTwilight(light_times) == light_times

\* weather2.py lines 320-341
IsDaylight2(light_times, current_utc_time) ==
    IF light_times # None /\ Len(light_times.items) = 6
    THEN LET hours_since_sunrise == current_utc_time - Item(light_times, 1)
             lt == IF hours_since_sunrise < 0
                   THEN CachedCivilTwilight(light_times)
                   ELSE light_times
         IN IF hours_since_sunrise > StaleSunriseHours * 60
            THEN TRUE
            ELSE Item(lt, 2) < current_utc_time
                     /\ current_utc_time < Item(lt, 3)
    ELSE TRUE

\* weather2.py lines 360-381, for a list of six times
IsNight2(light_times, current_utc_time) ==
    IF light_times # None
    THEN LET hours_since_sunrise == current_utc_time - Item(light_times, 1)
             lt == IF hours_since_sunrise < 0
                   THEN CachedCivilTwilight(light_times)
                   ELSE light_times
         IN IF hours_since_sunrise > StaleSunriseHours * 60
            THEN FALSE
            ELSE current_utc_time < Item(lt, 0)
                     \/ current_utc_time > Item(lt, 5)
    ELSE FALSE

\* get_proportion_between_times (weather2.py lines 402-415, weather.py
\* lines 295-304), for start < end
GetProportionBetweenTimes(start, current, end) ==
    IF current < start THEN Zero
    ELSE IF current > end THEN One
    ELSE Ratio(current - start, end - start)

\* clamp(-1.0, q, 1.0)
Clamp(q) ==
    IF q[1] < 0 - q[2] THEN <<0 - 1, 1>>
    ELSE IF q[1] > q[2] THEN One
    ELSE q

\* weather2.py lines 444-469: the branch get_twilight_transition takes
Region2(light_times, at) ==
    IF light_times = None \/ Len(light_times.items) < 5 THEN "no_data"
    ELSE IF IsDaylight2(light_times, at) THEN "daylight"
    ELSE IF IsNight2(light_times, at) THEN "night"
    ELSE IF at >= Item(light_times, 4) THEN "sunset_to_dusk"
    ELSE IF at >= Item(light_times, 3) THEN "full_light_to_sunset"
    ELSE IF at >= Item(light_times, 1) THEN "sunrise_to_full_light"
    ELSE "dawn_to_sunrise"

\* weather2.py lines 445-482: the pair a branch computes
RegionValue2(region, lt, at) ==
    CASE region = "no_data" -> Pair(Zero, One)
      [] region = "daylight" -> Pair(Zero, One)
      [] region = "night" -> Pair(Zero, Zero)
      [] region = "sunset_to_dusk" ->
            Pair(Clamp(OneMinus(GetProportionBetweenTimes(
                     Item(lt, 4), at, Item(lt, 5)))), Clamp(Zero))
      [] region = "full_light_to_sunset" ->
            Pair(Clamp(Zero), Clamp(OneMinus(GetProportionBetweenTimes(
                     Item(lt, 3), at, Item(lt, 4)))))
      [] region = "sunrise_to_full_light" ->
            Pair(Clamp(Zero), Clamp(GetProportionBetweenTimes(
                     Item(lt, 1), at, Item(lt, 2))))
      [] region = "dawn_to_sunrise" ->
            Pair(Clamp(GetProportionBetweenTimes(
                     Item(lt, 0), at, Item(lt, 1))), Clamp(Zero))

\* weather2.py get_twilight_transition, given the list of line 440
GetTwilightTransition2(light_times, at) ==
    RegionValue2(Region2(light_times, at), light_times, at)

\* the functions of weather2.py a caller asks
Weather2Ops ==
    {"weather2.is_daylight", "weather2.is_night",
     "weather2.get_twilight_transition"}

\* one of them is called with the list get_civil_twilight returned
Weather2Call(t, op, light_times, at_time) ==
    /\ th[t].pc = "idle"
    /\ calls_left > 0
    /\ calls_left' = calls_left - 1
    /\ Set(t, [Locals0 EXCEPT !.pc = "w2_start", !.op = op,
                              !.light_times = light_times,
                              !.at_time = at_time])
    /\ UNCHANGED <<now, cache_lock, metar_report_cache, station_last_called,
                   station_info, last_request, render_vars>>

\* and returns
Weather2Return(t) ==
    /\ th[t].pc = "w2_start"
    /\ LET l == th[t]
           value ==
               IF l.op = "weather2.is_daylight"
               THEN Bool(IsDaylight2(l.light_times, l.at_time))
               ELSE IF l.op = "weather2.is_night"
               THEN Bool(IsNight2(l.light_times, l.at_time))
               ELSE GetTwilightTransition2(l.light_times, l.at_time)
       IN Set(t, [l EXCEPT !.pc = "returned", !.result = value])
    /\ UNCHANGED <<now, cache_lock, metar_report_cache, station_last_called,
                   station_info, calls_left, last_request, render_vars>>

\* the provider's times of a day with twilights and full light of positive
\* length: <<civil_twilight_begin, sunrise, sunset, civil_twilight_end>>
DayTimes ==
    {p \in (0..MaxDay) \X (0..MaxDay) \X (0..MaxDay) \X (0..MaxDay) :
        /\ p[1] < p[2] /\ p[2] < p[3] /\ p[3] < p[4]
        /\ ((p[2] - p[1]) + (p[4] - p[3])) % 2 = 0
        /\ (p[2] - p[1]) + (p[4] - p[3]) < p[3] - p[2]}

\* the lists get_civil_twilight returns for them
LightTimes == {CivilTwilight(p[1], p[2], p[3], p[4]) : p \in DayTimes}

\* the times asked about: from before the earliest dawn to after the
\* latest dusk
Clock == (0 - 1)..(MaxDay + 1)

InitWeather2 ==
    /\ now = 0
    /\ cache_lock = NoThread
    /\ metar_report_cache = EmptyDict
    /\ station_last_called = EmptyDict
    /\ station_info = EmptyDict
    /\ th = [t \in Threads |-> Locals0]
    /\ calls_left = MaxCalls
    /\ last_request = EmptyDict
    /\ rt = Render0
    /\ visualizer_index = 0
    /\ pixels = Cleared
    /\ proc = [is_debug |-> FALSE, gpio_clean |-> FALSE, state |-> "running",
               interrupted |-> FALSE]

NextWeather2 ==
    \/ \E t \in MainThreads, op \in Weather2Ops, light_times \in LightTimes,
          at_time \in Clock : Weather2Call(t, op, light_times, at_time)
    \/ \E t \in MainThreads : Weather2Return(t)
    \/ \E t \in MainThreads : Finish(t)

SpecWeather2 == InitWeather2 /\ [][NextWeather2]_vars

\* ---------------------------------------------------------------------
\* weather.py: is_station_inoperative, get_metar_age and get_precipitation,
\* which read the METAR cache
\* ---------------------------------------------------------------------

\* a str with its text
Str(text) == [kind |-> "str", value |-> text]

\* a timedelta, in minutes
Age(minutes) == [kind |-> "timedelta", minutes |-> minutes]

\* one element of metar['conditions'] (line 689)
Condition(code, prefix) == [code |-> code, prefix |-> prefix]

\* a decoded report with the fields these functions read
Report(icao, observed, conditions) ==
    [kind |-> "dict", icao |-> icao, raw_text |-> TRUE,
     observed |-> observed, conditions |-> conditions]

\* lines 576-583 of get_metar_age: metar["observed"] of anything but a
\* report raises, and the except clause returns None
GetMetarAge(metar, current_time) ==
    IF metar.kind = "dict" /\ "observed" \in DOMAIN metar
    THEN Age(current_time - metar.observed)
    ELSE None

\* lines 720-734 of is_station_inoperative: a station without an entry is
\* a KeyError, answered True; an entry is a tuple, never None; line 724
\* passes the station code, a str, to get_metar_age, with the default
\* current_time
IsStationInoperative(cache, station) ==
    IF station \notin DOMAIN cache
    THEN TRUE
    ELSE LET metar_age == GetMetarAge(Str(station), ImportTime)
         IN IF metar_age # None
            THEN metar_age.minutes > InactiveMinutes
            ELSE FALSE

\* a rain that is taken as heavy whatever its prefix
ClassifyRainAsHeavy(cond) ==
    IF cond.code = "UP" THEN Str("UNKNOWN")
    ELSE IF cond.code = "RA" THEN Str("HEAVY RAIN")
    ELSE IF cond.code \in {"GR", "GS", "IC", "PL"} THEN Str("ICE")
    ELSE IF cond.code \in {"SN", "SG"} THEN Str("SNOW")
    ELSE IF cond.code = "DZ" THEN Str("DRIZZLE")
    ELSE None

\* lines 691-700: what one condition makes get_precipitation return, None
\* when the loop goes on
Classify(cond) ==
    IF cond.code = "UP" THEN Str("UNKNOWN")
    ELSE IF cond.code = "RA"
    THEN IF cond.prefix = "+" THEN Str("HEAVY RAIN") ELSE Str("RAIN")
    ELSE IF cond.code \in {"GR", "GS", "IC", "PL"} THEN Str("ICE")
    ELSE IF cond.code \in {"SN", "SG"} THEN Str("SNOW")
    ELSE IF cond.code = "DZ" THEN Str("DRIZZLE")
    ELSE None

\* line 690: the loop over the conditions; None when it ends
RECURSIVE ScanConditions(_)
ScanConditions(conds) ==
    IF conds = << >> THEN None
    ELSE IF Classify(Head(conds)) # None THEN Classify(Head(conds))
    ELSE ScanConditions(Tail(conds))

\* a raised exception, in place of a returned value
Raised == [kind |-> "raised"]

\* lines 685-702 of get_precipitation: KeyError at line 685 for a station
\* without an entry; 'INVALID'['conditions'] is a TypeError, which the
\* except clause does not catch; a report without 'conditions' is a
\* KeyError, answered None
GetPrecipitation(cache, station) ==
    IF station \notin DOMAIN cache THEN Raised
    ELSE LET data == cache[station][2]
         IN IF IsStr(data) THEN Raised
            ELSE IF "conditions" \notin DOMAIN data THEN None
            ELSE ScanConditions(data.conditions)

\* the functions of weather.py a caller asks about one station
StationOps == {"is_station_inoperative", "get_precipitation"}

\* one of them is called
StationCall(t, op, station) ==
    /\ th[t].pc = "idle"
    /\ calls_left > 0
    /\ calls_left' = calls_left - 1
    /\ Set(t, [Locals0 EXCEPT !.pc = "st_start", !.op = op,
                              !.station = station])
    /\ UNCHANGED <<now, cache_lock, metar_report_cache, station_last_called,
                   station_info, last_request, render_vars>>

\* get_metar_age(metar) is called as at line 531, with a report that is
\* not INVALID and without current_time
GetMetarAgeCall(t, metar) ==
    /\ th[t].pc = "idle"
    /\ calls_left > 0
    /\ calls_left' = calls_left - 1
    /\ Set(t, [Locals0 EXCEPT !.pc = "st_start", !.op = "get_metar_age",
                              !.report = metar])
    /\ UNCHANGED <<now, cache_lock, metar_report_cache, station_last_called,
                   station_info, last_request, render_vars>>

\* and reads the cache, without the lock, and returns or raises;
\* get_metar_age takes the default of line 564 for current_time, the
\* datetime.utcnow() of the moment the def statement ran, at import
StationReturn(t) ==
    /\ th[t].pc = "st_start"
    /\ LET l == th[t]
           value ==
               IF l.op = "is_station_inoperative"
               THEN Bool(IsStationInoperative(metar_report_cache, l.station))
               ELSE IF l.op = "get_metar_age"
               THEN GetMetarAge(l.report, ImportTime)
               ELSE GetPrecipitation(metar_report_cache, l.station)
       IN IF value = Raised
          THEN Set(t, [l EXCEPT !.pc = "raised"])
          ELSE Set(t, [l EXCEPT !.pc = "returned", !.result = value])
    /\ UNCHANGED <<now, cache_lock, metar_report_cache, station_last_called,
                   station_info, calls_left, last_request, render_vars>>

\* the condition codes a report may carry: those get_precipitation knows,
\* and two it does not (mist, fog)
ConditionCodes ==
    {"UP", "RA", "GR", "GS", "IC", "PL", "SN", "SG", "DZ", "BR", "FG"}

\* intensity prefixes
Prefixes == {"+", "-"}

\* the conditions of a report
ConditionLists ==
    SeqsUpTo({Condition(c, p) : c \in ConditionCodes, p \in Prefixes},
             MaxConditions)

\* the ages of a cached report, in minutes: around the inactive threshold,
\* fresh, and long past it
ReportAges == {10, InactiveMinutes, InactiveMinutes + 1, 120}

\* what the cache may hold for a station at that time: INVALID, a report
\* without conditions, or a full report
CachedValues(s, at) ==
    {INVALID, Metar(s, TRUE)}
        \cup {Report(s, at - a, c) : a \in ReportAges, c \in ConditionLists}

\* the stations whose report has been fetched, if any: the first one
FetchedStations == {s \in Stations : \A u \in Stations : s <= u}

InitStation ==
    /\ now \in 0..MaxTime
    /\ cache_lock = NoThread
    /\ metar_report_cache \in
           {EmptyDict} \cup UNION {{DictSet(EmptyDict, s, <<now, v>>) :
                                       v \in CachedValues(s, now)} :
                                    s \in FetchedStations}
    /\ station_last_called = EmptyDict
    /\ station_info = EmptyDict
    /\ th = [t \in Threads |-> Locals0]
    /\ calls_left = MaxCalls
    /\ last_request = EmptyDict
    /\ rt = Render0
    /\ visualizer_index = 0
    /\ pixels = Cleared
    /\ proc = [is_debug |-> FALSE, gpio_clean |-> FALSE, state |-> "running",
               interrupted |-> FALSE]

NextStation ==
    \/ \E t \in MainThreads, op \in StationOps, station \in Stations :
          StationCall(t, op, station)
    \/ \E t \in MainThreads, s \in Stations, a \in ReportAges :
          GetMetarAgeCall(t, Report(s, now - a, << >>))
    \/ \E t \in MainThreads : StationReturn(t)
    \/ \E t \in MainThreads : Finish(t)

SpecStation == InitStation /\ [][NextStation]_vars

\* ---------------------------------------------------------------------
\* controller.py: __get_dimmed_color__
\* ---------------------------------------------------------------------

\* a color channel: an int, or a float given as a ratio
PyInt(value) == [kind |-> "int", value |-> value]
PyFloat(q) == [kind |-> "float", value |-> q]

\* float(color)
ToFloat(color) == IF color.kind = "int" THEN <<color.value, 1>> ELSE color.value

\* the product of two floats; exact for the channels and the brightness
\* steps drawn below, which are binary fractions
Times(p, q) == Ratio(p[1] * q[1], p[2] * q[2])

\* a conversion that rounds to the nearest integer
RoundToNearest(q) == (2 * q[1] + q[2]) \div (2 * q[2])

\* int(reduced_color): the fraction is dropped, toward zero
Truncate(q) ==
    IF q[1] >= 0 THEN q[1] \div q[2] ELSE 0 - ((0 - q[1]) \div q[2])

\* the body of the loop: one channel, dimmed
DimChannel(color, brightness_adjustment) ==
    LET reduced_color == Times(ToFloat(color), brightness_adjustment)
    IN IF color.kind = "int"
       THEN PyInt(Truncate(reduced_color))
       ELSE PyFloat(reduced_color)

\* a loop that puts each dimmed channel in front of the earlier ones
RECURSIVE DimmedBackwards(_, _)
DimmedBackwards(starting_color, brightness_adjustment) ==
    IF starting_color = << >> THEN << >>
    ELSE Append(DimmedBackwards(Tail(starting_color), brightness_adjustment),
                DimChannel(Head(starting_color), brightness_adjustment))

\* the loop: dimmed_color.append(reduced_color) for each channel in turn
RECURSIVE Dimmed(_, _)
Dimmed(starting_color, brightness_adjustment) ==
    IF starting_color = << >> THEN << >>
    ELSE <<DimChannel(Head(starting_color), brightness_adjustment)>>
             \o Dimmed(Tail(starting_color), brightness_adjustment)

\* __get_dimmed_color__(starting_color) is called;
\* configuration.get_brightness_proportion() is brightness_adjustment
GetDimmedColorCall(t, starting_color, brightness_adjustment) ==
    /\ th[t].pc = "idle"
    /\ calls_left > 0
    /\ calls_left' = calls_left - 1
    /\ Set(t, [Locals0 EXCEPT !.pc = "dim_start",
                              !.op = "__get_dimmed_color__",
                              !.starting_color = starting_color,
                              !.brightness_adjustment = brightness_adjustment])
    /\ UNCHANGED <<now, cache_lock, metar_report_cache, station_last_called,
                   station_info, last_request, render_vars>>

\* and returns the new list dimmed_color
GetDimmedColorReturn(t) ==
    /\ th[t].pc = "dim_start"
    /\ Set(t, [th[t] EXCEPT
                 !.pc = "returned",
                 !.result = List(Dimmed(th[t].starting_color,
                                        th[t].brightness_adjustment))])
    /\ UNCHANGED <<now, cache_lock, metar_report_cache, station_last_called,
                   station_info, calls_left, last_request, render_vars>>

\* the brightness proportions of the configuration: 0.0 to 1.0 in steps
Brightnesses == {Ratio(n, BrightnessSteps) : n \in 0..BrightnessSteps}

\* channels for colors of several channels: the ends of the integer range,
\* and floats
SampleChannels ==
    {PyInt(0), PyInt(1), PyInt(MaxChannel),
     PyFloat(<<1, 2>>), PyFloat(Ratio(MaxChannel, 2))}

\* the colors to dim: every integer channel on its own, and the colors
\* with NumChannels sample channels, and the empty list
StartingColors ==
    {<< >>} \cup {<<PyInt(c)>> : c \in 0..MaxChannel}
        \cup [1..NumChannels -> SampleChannels]

InitColor ==
    /\ now = 0
    /\ cache_lock = NoThread
    /\ metar_report_cache = EmptyDict
    /\ station_last_called = EmptyDict
    /\ station_info = EmptyDict
    /\ th = [t \in Threads |-> Locals0]
    /\ calls_left = MaxCalls
    /\ last_request = EmptyDict
    /\ rt = Render0
    /\ visualizer_index = 0
    /\ pixels = Cleared
    /\ proc = [is_debug |-> FALSE, gpio_clean |-> FALSE, state |-> "running",
               interrupted |-> FALSE]

NextColor ==
    \/ \E t \in MainThreads, starting_color \in StartingColors,
          brightness_adjustment \in Brightnesses :
          GetDimmedColorCall(t, starting_color, brightness_adjustment)
    \/ \E t \in MainThreads : GetDimmedColorReturn(t)
    \/ \E t \in MainThreads : Finish(t)

SpecColor == InitColor /\ [][NextColor]_vars

\* ---------------------------------------------------------------------
\* __is_cache_valid__ and __set_cache__ (the same code in weather.py and in
\* weather2.py) called with any cache: None, or a dict of the caller
\* ---------------------------------------------------------------------

CacheOps == {"__is_cache_valid__", "__set_cache__"}

\* a dict passed as cache
Dict(items) == [kind |-> "dict", items |-> items]

\* lines 179-190: the read inside try. An entry that is no tuple raises at
\* line 180, except Exception: pass, and line 192 returns (False, None)
CacheRead(code, cache, at) ==
    IF code \in DOMAIN cache /\ Len(cache[code]) < 2
    THEN <<FALSE, None>>
    ELSE CacheLookup(code, cache, at)

\* __is_cache_valid__(station, cache) or __set_cache__(station, cache, value)
\* is called
CacheCall(t, op, station, cache, value) ==
    /\ th[t].pc = "idle"
    /\ calls_left > 0
    /\ calls_left' = calls_left - 1
    /\ Set(t, [Locals0 EXCEPT !.pc = "lock_acquire", !.op = op,
                              !.station = station, !.cache = cache,
                              !.report = value])
    /\ UNCHANGED <<now, cache_lock, metar_report_cache, station_last_called,
                   station_info, last_request, render_vars>>

\* lines 147 and 172: __cache_lock__.acquire(), a threading.Lock
CacheLockAcquire(t) ==
    /\ th[t].pc = "lock_acquire"
    /\ cache_lock = NoThread
    /\ cache_lock' = t
    /\ Set(t, [th[t] EXCEPT !.pc = "lock_held"])
    /\ UNCHANGED <<now, metar_report_cache, station_last_called,
                   station_info, calls_left, last_request, render_vars>>

\* __is_cache_valid__, lines 174-192: if cache is None: return (False,
\* None), before the try; otherwise the read, and the release in finally
IsCacheValidBody(t) ==
    /\ th[t].pc = "lock_held"
    /\ th[t].op = "__is_cache_valid__"
    /\ IF th[t].cache.kind = "None"
       THEN /\ Set(t, [th[t] EXCEPT !.pc = "returned",
                                    !.cache_valid = FALSE, !.report = None])
            /\ cache_lock' = cache_lock
       ELSE /\ LET got == CacheRead(th[t].station, th[t].cache.items, now)
               IN Set(t, [th[t] EXCEPT !.pc = "returned",
                                       !.cache_valid = got[1],
                                       !.report = got[2]])
            /\ cache_lock' = NoThread
    /\ UNCHANGED <<now, metar_report_cache, station_last_called,
                   station_info, calls_left, last_request, render_vars>>

\* __set_cache__, lines 148-151: cache[station_icao_code] = (utcnow(),
\* value), a TypeError when cache is None, and the release in finally
SetCacheBody(t) ==
    /\ th[t].pc = "lock_held"
    /\ th[t].op = "__set_cache__"
    /\ IF th[t].cache.kind = "None"
       THEN Set(t, [th[t] EXCEPT !.pc = "raised"])
       ELSE Set(t, [th[t] EXCEPT
                      !.pc = "returned",
                      !.cache = Dict(DictSet(th[t].cache.items, th[t].station,
                                             <<now, th[t].report>>))])
    /\ cache_lock' = NoThread
    /\ UNCHANGED <<now, metar_report_cache, station_last_called,
                   station_info, calls_left, last_request, render_vars>>

\* the caches passed: None, the empty dict, and a dict with one entry that
\* is fresh, expired, or no tuple
CacheArguments ==
    {None, Dict(EmptyDict)}
        \cup UNION {{Dict(DictSet(EmptyDict, s, e)) :
                        e \in {<<0, Metar(s, TRUE)>>,
                               <<0 - CacheLifeMinutes, Metar(s, TRUE)>>,
                               << >>}} : s \in Stations}

InitLock ==
    /\ now = 0
    /\ cache_lock = NoThread
    /\ metar_report_cache = EmptyDict
    /\ station_last_called = EmptyDict
    /\ station_info = EmptyDict
    /\ th = [t \in Threads |-> Locals0]
    /\ calls_left = MaxCalls
    /\ last_request = EmptyDict
    /\ rt = Render0
    /\ visualizer_index = 0
    /\ pixels = Cleared
    /\ proc = [is_debug |-> FALSE, gpio_clean |-> FALSE, state |-> "running",
               interrupted |-> FALSE]

NextLock ==
    \/ \E t \in Threads, op \in CacheOps, station \in Stations,
          cache \in CacheArguments :
          CacheCall(t, op, station, cache, Metar(station, TRUE))
    \/ \E t \in Threads : CacheLockAcquire(t)
    \/ \E t \in Threads : IsCacheValidBody(t)
    \/ \E t \in Threads : SetCacheBody(t)
    \/ \E t \in Threads : Finish(t)
    \/ Tick

SpecLock == InitLock /\ [][NextLock]_vars

\* ---------------------------------------------------------------------
\* visualizers/rainbow.py: wheel and the update of the rainbow visualizer
\* ---------------------------------------------------------------------

\* line 71: the 256 positions of the wheel
WheelSize == 256

\* line 69: for j in range(255)
Frames == 255

\* a wheel whose second and third parts forget pos -= 85 and pos -= 170
WheelWithoutShift(pos) ==
    IF pos < 0 \/ pos > 255 THEN <<0, 0, 0>>
    ELSE IF pos < 85 THEN <<pos * 3, 255 - pos * 3, 0>>
    ELSE IF pos < 170 THEN <<255 - pos * 3, 0, pos * 3>>
    ELSE <<0, pos * 3, 255 - pos * 3>>

\* lines 6-27: wheel(pos), the tuple (r, g, b); int() of an integer is
\* that integer
Wheel(pos) ==
    IF pos < 0 \/ pos > 255 THEN <<0, 0, 0>>
    ELSE IF pos < 85 THEN <<pos * 3, 255 - pos * 3, 0>>
    ELSE IF pos < 170
         THEN <<255 - (pos - 85) * 3, 0, (pos - 85) * 3>>
         ELSE <<0, (pos - 170) * 3, 255 - (pos - 170) * 3>>

\* wheel(pos) is called
WheelCall(t, pos) ==
    /\ th[t].pc = "idle"
    /\ calls_left > 0
    /\ calls_left' = calls_left - 1
    /\ Set(t, [Locals0 EXCEPT !.pc = "wheel_start", !.op = "wheel",
                              !.pos = pos])
    /\ UNCHANGED <<now, cache_lock, metar_report_cache, station_last_called,
                   station_info, last_request, render_vars>>

\* line 27: return (r, g, b)
WheelReturn(t) ==
    /\ th[t].pc = "wheel_start"
    /\ Set(t, [th[t] EXCEPT !.pc = "returned",
                            !.result = Wheel(th[t].pos)])
    /\ UNCHANGED <<now, cache_lock, metar_report_cache, station_last_called,
                   station_info, calls_left, last_request, render_vars>>

\* lines 71-76: the position of pixel i in frame j, pixel_index & 255
PixelPosition(i, j) == (((i * WheelSize) \div NumPixels) + j) % WheelSize

\* lines 63-67: update is called; j is the frame
RainbowUpdateCall(t) ==
    /\ th[t].pc = "idle"
    /\ calls_left > 0
    /\ calls_left' = calls_left - 1
    /\ Set(t, [Locals0 EXCEPT !.pc = "frame", !.op = "update", !.k = 0])
    /\ UNCHANGED <<now, cache_lock, metar_report_cache, station_last_called,
                   station_info, last_request, render_vars>>

\* lines 69-80: one frame, set_led for every pixel and then show(); after
\* the last frame update returns
RainbowFrame(t) ==
    /\ th[t].pc = "frame"
    /\ pixels' = [i \in 0..(NumPixels - 1) |->
                     Wheel(PixelPosition(i, th[t].k))]
    /\ Set(t, IF th[t].k + 1 < Frames
              THEN [th[t] EXCEPT !.k = @ + 1]
              ELSE [th[t] EXCEPT !.k = @ + 1, !.pc = "returned"])
    /\ UNCHANGED <<now, cache_lock, metar_report_cache, station_last_called,
                   station_info, calls_left, last_request, rt,
                   visualizer_index, proc>>

\* the positions asked of wheel: 0..255 and some on either side
Positions == (0 - PosMargin)..(255 + PosMargin)

InitRainbow ==
    /\ now = 0
    /\ cache_lock = NoThread
    /\ metar_report_cache = EmptyDict
    /\ station_last_called = EmptyDict
    /\ station_info = EmptyDict
    /\ th = [t \in Threads |-> Locals0]
    /\ calls_left = MaxCalls
    /\ last_request = EmptyDict
    /\ rt = Render0
    /\ visualizer_index = 0
    /\ pixels = [i \in 0..(NumPixels - 1) |-> <<0, 0, 0>>]
    /\ proc = [is_debug |-> FALSE, gpio_clean |-> FALSE, state |-> "running",
               interrupted |-> FALSE]

NextRainbow ==
    \/ \E t \in MainThreads, pos \in Positions : WheelCall(t, pos)
    \/ \E t \in MainThreads : WheelReturn(t)
    \/ \E t \in MainThreads : RainbowUpdateCall(t)
    \/ \E t \in MainThreads : RainbowFrame(t)
    \/ \E t \in MainThreads : Finish(t)

SpecRainbow == InitRainbow /\ [][NextRainbow]_vars

\* ---------------------------------------------------------------------
\* get_metars called again and again by one thread, over the life of a
\* cache entry
\* ---------------------------------------------------------------------

\* a minute passes between or inside the calls of the one thread
TickLate ==
    /\ now < MaxLateTime
    /\ \A t \in Threads : Waiting(th[t])
    /\ now' = now + 1
    /\ UNCHANGED <<weather_vars, render_vars>>

InitCache ==
    /\ now = 0
    /\ cache_lock = NoThread
    /\ metar_report_cache = EmptyDict
    /\ station_last_called = EmptyDict
    /\ station_info = [s \in Stations |-> ImportedInfo(s)]
    /\ th = [t \in Threads |-> Locals0]
    /\ calls_left = MaxLateCalls
    /\ last_request = EmptyDict
    /\ rt = Render0
    /\ visualizer_index = 0
    /\ pixels = Cleared
    /\ proc = [is_debug |-> FALSE, gpio_clean |-> FALSE, state |-> "running",
               interrupted |-> FALSE]

NextCache ==
    \/ \E t \in MainThreads, codes \in CodeLists,
          use_cache \in UseCacheValues : GetMetarsCall(t, codes, use_cache)
    \/ \E t \in MainThreads : IsCacheValidAcquire(t)
    \/ \E t \in MainThreads : IsCacheValidRead(t)
    \/ \E t \in MainThreads : GetMetarsChoose(t)
    \/ \E t \in MainThreads : GetMetarsUseCached(t)
    \/ \E t \in MainThreads : FetchSend(t)
    \/ \E t \in MainThreads, outcome \in Outcomes : FetchReceive(t, outcome)
    \/ \E t \in MainThreads : GetMetarsInvalid(t)
    \/ \E t \in MainThreads : GetMetarsSetLastCalled(t)
    \/ \E t \in MainThreads : SetCacheAcquire(t)
    \/ \E t \in MainThreads : SetCacheWriteMetar(t)
    \/ \E t \in MainThreads : Finish(t)
    \/ TickLate

SpecCache == InitCache /\ [][NextCache]_vars

\* ---------------------------------------------------------------------
\* fetch_metars under a scheduler that lets every thread run
\* ---------------------------------------------------------------------

\* line 484: requests.get(url, headers=hdr) is given no timeout, and
\* requests then waits for the answer without a limit
HasTimeout == FALSE

\* a request that has a timeout ends: with the answer, or with the timeout
\* error when the limit is reached
RequestEnds(t) == HasTimeout /\ \E outcome \in Outcomes : FetchReceive(t, outcome)

\* a thread that can take its next step takes it; a request ends only when
\* something makes it end
FetchFairness ==
    \A t \in Threads :
        /\ WF_vars(FetchSend(t))
        /\ WF_vars(Finish(t))
        /\ WF_vars(RequestEnds(t))

SpecFetchLive == InitFetch /\ [][NextFetch]_vars /\ FetchFairness

\* ---------------------------------------------------------------------
\* claims
\* ---------------------------------------------------------------------

\* thread t sends a METAR request in this step
Sends(t) == th[t].pc = "fm_for" /\ th'[t].pc = "in_flight"

\* the codes of the request thread t sends next
NextChunk(t) == Range(Slice(th[t].fcodes, th[t].i))

\* thread t is inside get_metars with a fetch result of INVALID for code c
ResultInvalid(t, c) ==
    /\ th[t].op = "get_metars"
    /\ c \in DOMAIN th[t].new_metars
    /\ IsStr(th[t].new_metars[c])

\* C1: two fetch attempts for a station less than 60 seconds apart issue at
\* most one outbound METAR request containing it: no request for a station
\* goes out less than a minute after the latest request for it.
C1_AtMostOneRequestPerMinute ==
    [][\A t \in Threads : Sends(t) =>
          \A c \in NextChunk(t) :
             c \in DOMAIN last_request =>
                now - last_request[c] >= RateLimitMinutes]_vars

\* C2: a get_metars call (use_cache=True) that finds a station's cache entry
\* younger than the TTL returns the cached report and does not put the
\* station on the list to fetch.
C2_FreshEntryIsNotFetched ==
    [][\A t \in Threads :
          (th[t].pc = "ok_to_call" /\ th'[t] # th[t]
             /\ th[t].use_cache /\ th[t].cache_valid)
          => /\ th'[t].pc = "use_cached"
             /\ th'[t].ids_to_fetch = th[t].ids_to_fetch]_vars

\* C3: when the fetch fails for a station (its result is INVALID, the
\* request raises, or INVALID is recorded for it in the result) and the
\* cache holds an entry for it, no step of that call changes the entry, and
\* the entry never holds INVALID.
C3_FailedFetchKeepsEntry ==
    [][\A t \in Threads, c \in Stations :
          (/\ c \in DOMAIN metar_report_cache
           /\ th'[t] # th[t]
           /\ \/ ResultInvalid(t, c)
              \/ th[t].pc = "in_flight" /\ th'[t].pc = "raised"
              \/ c \in DOMAIN th'[t].metars /\ IsStr(th'[t].metars[c]))
          => /\ metar_report_cache'[c] = metar_report_cache[c]
             /\ ~IsStr(metar_report_cache'[c][2])]_vars

\* a call has returned INVALID-handed for a station whose entry was cached
\* before the failing request went out
C3_Witness ==
    \E t \in Threads, c \in Stations :
        /\ th[t].pc = "returned"
        /\ ResultInvalid(t, c)
        /\ c \in DOMAIN metar_report_cache
        /\ c \in DOMAIN last_request
        /\ metar_report_cache[c][1] < last_request[c]

\* C4: after get_metars returns from a fetch that failed for a station, the
\* METAR cache has an entry for that station.
C4_FailedFetchCreatesEntry ==
    \A t \in Threads, c \in Stations :
        (th[t].pc = "returned" /\ ResultInvalid(t, c))
        => c \in DOMAIN metar_report_cache

\* C5: the handler of a visualization fault leaves the pixels as they are
\* and takes the loop back to its head, the process still running.
C5_FaultHandledLoopContinues ==
    [][(rt.pc = "except" /\ rt' # rt /\ ~proc'.interrupted)
          => /\ rt'.pc = "head"
             /\ pixels' = pixels
             /\ proc'.state = "running"
             /\ rt'.ticks = rt.ticks]_vars

\* the update of tick N raised and tick N+1 is at its update
C5_Witness ==
    /\ rt.fault_tick > 0
    /\ rt.ticks = rt.fault_tick + 1
    /\ rt.pc = "update"

\* C6: once Ctrl-C has ended the process on a host with GPIO, GPIO.cleanup()
\* has run.
C6_InterruptReleasesHardware ==
    (proc.state = "exited" /\ proc.interrupted /\ ~proc.is_debug)
    => proc.gpio_clean

\* C7: a thread with a request in flight (METAR or suntimes) does not hold
\* __cache_lock__.
C7_NoLockWhileInFlight ==
    \A t \in Threads :
        th[t].pc \in {"in_flight", "sun_in_flight"} => cache_lock # t

\* a METAR request and a suntimes request are in flight at once
C7_Witness ==
    \E t, u \in Threads :
        /\ th[t].pc = "in_flight"
        /\ th[u].pc = "sun_in_flight"

\* the positions whose next step reads or writes the METAR cache or
\* __station_last_called__
AccessesCache(l) ==
    \/ l.pc \in {"icv_read", "ok_to_call", "use_cached", "set_last_called"}
    \/ l.pc = "sc_write" /\ l.op = "get_metars"

\* C8: every read and write of the METAR cache and of
\* __station_last_called__ is made by a thread that holds __cache_lock__.
C8_AccessOnlyUnderLock ==
    \A t \in Threads : AccessesCache(th[t]) => cache_lock = t

\* fetch_metars, called on its own, has ended
FetchEnded(l) == l.op = "fetch_metars" /\ l.pc \in {"returned", "raised"}

\* ceil(n / 20)
ChunkCount(n) == (n + ChunkSize - 1) \div ChunkSize

RECURSIVE Concat(_)
Concat(ss) == IF ss = << >> THEN << >> ELSE Head(ss) \o Concat(Tail(ss))

\* C9: fetch_metars on n codes issues exactly ceil(n/20) requests, each
\* with at most 20 codes, and the requests taken together are the input.
C9_OneRequestPerChunk ==
    \A t \in Threads :
        FetchEnded(th[t])
        => /\ Len(th[t].requests) = ChunkCount(Len(th[t].fcodes))
           /\ \A j \in 1..Len(th[t].requests) :
                 Len(th[t].requests[j]) <= ChunkSize
           /\ Concat(th[t].requests) = th[t].fcodes

\* C10: when the request of a chunk has failed, fetch_metars still sends
\* the request of every chunk after it, returns, and returns every code of
\* those chunks.
C10_ChunkFailureDoesNotAbort ==
    \A t \in Threads :
        FetchEnded(th[t])
        => \A f \in th[t].failed_chunks :
              \A j \in (f + 1)..ChunkCount(Len(th[t].fcodes)) :
                 /\ th[t].pc = "returned"
                 /\ j <= Len(th[t].requests)
                 /\ Range(th[t].requests[j]) \subseteq DOMAIN th[t].ret_metars

\* fetch_metars, called on its own, has returned its mapping
FetchReturned(l) == l.op = "fetch_metars" /\ l.pc = "returned"

\* C11: the mapping fetch_metars returns has a key for every requested
\* code, whose value is the report of that station or INVALID.
C11_EveryRequestedCodeIsAKey ==
    \A t \in Threads :
        FetchReturned(th[t])
        => \A c \in Range(th[t].fcodes) :
              /\ c \in DOMAIN th[t].ret_metars
              /\ \/ IsStr(th[t].ret_metars[c])
                 \/ th[t].ret_metars[c].icao = c

\* get_metars has returned its mapping
GetMetarsReturned(l) == l.op = "get_metars" /\ l.pc = "returned"

\* C12: the mapping get_metars returns has a key for every requested code.
C12_EveryRequestedStationIsAKey ==
    \A t \in Threads :
        GetMetarsReturned(th[t])
        => \A c \in Range(th[t].airport_icao_codes) :
              c \in DOMAIN th[t].metars

\* C13: no call of get_metars ends with an exception that reaches its
\* caller.
C13_GetMetarsNeverRaises ==
    \A t \in Threads : th[t].op = "get_metars" => th[t].pc # "raised"

\* C14: when get_metars returns, every well-formed report its fetch brought
\* is in the result, in the cache, and has its last-called time recorded.
C14_MalformedReportAffectsOnlyItsStation ==
    \A t \in Threads :
        GetMetarsReturned(th[t])
        => \A c \in DOMAIN th[t].new_metars :
              (~IsStr(th[t].new_metars[c]) /\ th[t].new_metars[c].raw_text)
              => /\ c \in DOMAIN th[t].metars
                 /\ c \in DOMAIN metar_report_cache
                 /\ c \in DOMAIN station_last_called

\* C15: a get_metars call (use_cache=True) that decides about a station
\* while a successful call for it was recorded less than a minute ago does
\* not put the station on the list to fetch.
C15_RateLimitedStationIsNotFetched ==
    [][\A t \in Threads :
          (/\ th[t].pc = "ok_to_call" /\ th'[t] # th[t]
           /\ th[t].use_cache
           /\ CurrentId(th[t]) \in DOMAIN station_last_called
           /\ now - station_last_called[CurrentId(th[t])] < RateLimitMinutes)
          => th'[t].ids_to_fetch = th[t].ids_to_fetch]_vars

C17_EveryRequestEnds ==
    \A t \in Threads : (th[t].pc = "in_flight") ~> (th[t].pc # "in_flight")

\* the six times of a twilight record are in the order of the day
InDayOrder(r) ==
    /\ r.dawn <= r.sunrise
    /\ r.sunrise <= r.full_light_start
    /\ r.full_light_start <= r.full_light_end
    /\ r.full_light_end <= r.sunset
    /\ r.sunset <= r.dusk

\* C18: the record __fetch_airport_data__ computes from well-formed times
\* (dawn <= sunrise <= sunset <= dusk) has dawn <= sunrise <=
\* full_light_start <= full_light_end <= sunset <= dusk.
C18_TwilightRecordInDayOrder ==
    \A t \in Threads :
        (th[t].op = "is_daylight" /\ th[t].pc = "sc_acquire")
        => InDayOrder(th[t].result)

\* is_daylight answers from the station data it found, in this step
DaylightAnswered(t) == th[t].pc = "dl_start" /\ th'[t].pc = "returned"

CachedRecord(entry) == IF entry.kind = "tuple" THEN entry.data ELSE entry

\* a twilight query of the given function has ended, and every suntimes
\* request it made was answered with the station's record
QueryEnded(l, op) ==
    /\ l.op = op
    /\ l.pc \in {"returned", "raised"}
    /\ l.station \in DOMAIN station_info
    /\ l.fn # "none" => station_info[l.station].kind = "tuple"

\* C21: asked about a station whose cached sunrise is no more than a day
\* before at_time, is_night returns True if and only if at_time < sunrise
\* or at_time > dusk
C21_NightIffBeforeSunriseOrAfterDusk ==
    \A t \in Threads :
        LET l == th[t]
            si == CachedRecord(station_info[l.station])
        IN (QueryEnded(l, "is_night")
              /\ l.at_time - si.sunrise <= StaleSunriseHours * 60)
           => /\ l.pc = "returned"
              /\ l.result = Bool(l.at_time < si.sunrise \/ l.at_time > si.dusk)

\* the linear interpolation of the four twilight regions of record r
Interpolation(r, at) ==
    IF r.dawn <= at /\ at < r.sunrise
    THEN Pair(Ratio(at - r.dawn, r.sunrise - r.dawn), Zero)
    ELSE IF r.sunrise <= at /\ at < r.full_light_start
    THEN Pair(Zero, Ratio(at - r.sunrise, r.full_light_start - r.sunrise))
    ELSE IF r.full_light_end <= at /\ at < r.sunset
    THEN Pair(Zero, OneMinus(Ratio(at - r.full_light_end,
                                   r.sunset - r.full_light_end)))
    ELSE Pair(OneMinus(Ratio(at - r.sunset, r.dusk - r.sunset)), Zero)

\* at is in one of the four twilight regions of record r
InTwilight(r, at) ==
    \/ r.dawn <= at /\ at < r.full_light_start
    \/ r.full_light_end <= at /\ at < r.dusk

\* C22: for an at_time that is neither Daylight nor Night,
\* get_twilight_transition of weather.py returns the linear interpolation
\* of the region at_time is in
C22_TransitionIsTheInterpolation ==
    \A t \in Threads :
        LET l == th[t]
            r == CachedRecord(station_info[l.station])
        IN (QueryEnded(l, "get_twilight_transition")
              /\ InTwilight(r, l.at_time)
              /\ ~DaylightAnswer(r, l.at_time)
              /\ ~NightAnswer(r, l.at_time))
           => /\ l.pc = "returned"
              /\ l.result = Interpolation(r, l.at_time)

\* the answer the given function computes from record r
TwilightAnswer(op, r, at) ==
    IF op = "is_daylight" THEN Bool(DaylightAnswer(r, at))
    ELSE Bool(NightAnswer(r, at))

\* C24: an is_daylight or is_night query that has refetched the station's
\* twilight data returns a boolean computed from the refreshed data
C24_RefetchedQueryAnswers ==
    [][\A t \in Threads :
          (/\ th[t].op \in {"is_daylight", "is_night"}
           /\ th[t].pc \in {"dl_after", "nt_after"}
           /\ th'[t].pc # th[t].pc)
          => /\ th'[t].pc = "returned"
             /\ th'[t].result =
                    TwilightAnswer(th[t].op,
                                   CachedRecord(station_info[th[t].station]),
                                   th[t].at_time)]_vars

\* the answers for data more than a day old
StaleAnswer(op) ==
    IF op = "is_daylight" THEN Bool(TRUE)
    ELSE IF op = "is_night" THEN Bool(FALSE)
    ELSE Pair(Zero, One)

\* C25: a query about a time more than 24 hours after the station's cached
\* sunrise does not fail: is_daylight returns True, is_night False and
\* get_twilight_transition the Daylight pair
C25_StaleDataIsDaylight ==
    \A t \in Threads :
        LET l == th[t]
        IN (/\ l.op \in TwilightOps
            /\ l.pc \in {"returned", "raised"}
            /\ l.station \in DOMAIN station_info
            /\ l.at_time - CachedRecord(station_info[l.station]).sunrise
                   > StaleSunriseHours * 60)
           => l.pc = "returned" /\ l.result = StaleAnswer(l.op)

\* C26: a twilight query for a station that has no cached twilight data
\* does not fail
C26_FirstQueryFetches ==
    \A t \in Threads :
        (th[t].op \in TwilightOps /\ th[t].station \notin DOMAIN station_info)
        => th[t].pc # "raised"

\* the branches of get_twilight_transition on the two sides of
\* light_times[k]
Below(k) ==
    <<"night", "dawn_to_sunrise", "sunrise_to_full_light", "daylight",
      "full_light_to_sunset", "sunset_to_dusk">>[k + 1]
Above(k) ==
    <<"dawn_to_sunrise", "sunrise_to_full_light", "daylight",
      "full_light_to_sunset", "sunset_to_dusk", "night">>[k + 1]

\* C23: at dawn, sunrise, full_light_start, full_light_end, sunset and dusk
\* the pair get_twilight_transition of weather2.py returns equals the
\* limit of the pairs on either side of the boundary
C23_ContinuousAtBoundaries ==
    \A t \in Threads : \A k \in 0..5 :
        LET l == th[t]
        IN (/\ l.op = "weather2.get_twilight_transition"
            /\ l.pc = "returned"
            /\ l.at_time = Item(l.light_times, k))
           => /\ l.result = RegionValue2(Below(k), l.light_times, l.at_time)
              /\ l.result = RegionValue2(Above(k), l.light_times, l.at_time)

\* the age of the cached report of station s, None without a report
ReportAge(s) ==
    IF s \notin DOMAIN metar_report_cache THEN None
    ELSE LET data == metar_report_cache[s][2]
         IN IF IsStr(data) \/ "observed" \notin DOMAIN data THEN None
            ELSE Age(now - data.observed)

\* the station has no cache entry, or a report with its time of observation
AbsentOrObserved(s) ==
    \/ s \notin DOMAIN metar_report_cache
    \/ ReportAge(s) # None

\* C27: is_station_inoperative answers True exactly when the station has
\* no cached report or the age of its cached report exceeds the inactive
\* threshold
C27_InoperativeIffNoReportOrOld ==
    \A t \in Threads :
        LET l == th[t]
        IN (/\ l.op = "is_station_inoperative"
            /\ l.pc = "returned"
            /\ AbsentOrObserved(l.station))
           => l.result =
                  Bool(\/ ReportAge(l.station) = None
                       \/ ReportAge(l.station).minutes > InactiveMinutes)

\* the table of precipitation codes, None for a code that is not in it
PrecipitationTable(cond) ==
    CASE cond.code = "UP" -> Str("UNKNOWN")
      [] cond.code = "RA" /\ cond.prefix = "+" -> Str("HEAVY RAIN")
      [] cond.code = "RA" /\ cond.prefix # "+" -> Str("RAIN")
      [] cond.code \in {"GR", "GS", "IC", "PL"} -> Str("ICE")
      [] cond.code \in {"SN", "SG"} -> Str("SNOW")
      [] cond.code = "DZ" -> Str("DRIZZLE")
      [] OTHER -> None

\* the conditions of the cached report of station s
CachedConditions(s) == metar_report_cache[s][2].conditions

\* a get_precipitation call about a cached report with conditions is over
PrecipitationDone(l) ==
    /\ l.op = "get_precipitation"
    /\ l.pc \in {"returned", "raised"}
    /\ l.station \in DOMAIN metar_report_cache
    /\ ~IsStr(metar_report_cache[l.station][2])
    /\ "conditions" \in DOMAIN metar_report_cache[l.station][2]

Scaled(c, b) ==
    IF c.kind = "int"
    THEN PyInt((c.value * b[1]) \div b[2])
    ELSE PyFloat(Ratio(c.value[1] * b[1], c.value[2] * b[2]))

\* C29: __get_dimmed_color__ leaves its input list unmodified and returns a
\* list of the same length whose channel i is input channel i scaled by
\* the brightness; with brightness 1.0 the output equals the input
C29_DimmingScalesEachChannel ==
    [][\A t \in Threads :
          (th[t].pc = "dim_start" /\ th'[t].pc = "returned")
          => LET input == th[t].starting_color
                 b == th[t].brightness_adjustment
                 output == th'[t].result.items
             IN /\ th'[t].starting_color = input
                /\ Len(output) = Len(input)
                /\ \A i \in 1..Len(input) : output[i] = Scaled(input[i], b)
                /\ b = One => output = input]_vars

\* C29 witness: a color with the brightest int channel and a float channel
\* has been dimmed by one brightness step, to a color that differs from it
C29_Witness ==
    \E t \in Threads :
        LET l == th[t]
        IN /\ l.op = "__get_dimmed_color__"
           /\ l.pc = "returned"
           /\ Len(l.starting_color) = NumChannels
           /\ l.starting_color[1] = PyInt(MaxChannel)
           /\ \E i \in 1..NumChannels : l.starting_color[i].kind = "float"
           /\ l.brightness_adjustment
                  = Ratio(BrightnessSteps - 1, BrightnessSteps)
           /\ l.result.items # l.starting_color
           /\ l.result.items[1] = Scaled(PyInt(MaxChannel),
                                         l.brightness_adjustment)

\* C30: an integer channel c is dimmed to the integer v with
\* v <= c * b < v + 1, so 0 <= v <= c, and a float channel to the float
\* c * b
C30_IntegerChannelsAreTruncated ==
    \A t \in Threads :
        LET l == th[t]
            b == l.brightness_adjustment
        IN (l.op = "__get_dimmed_color__" /\ l.pc = "returned")
           => \A i \in 1..Len(l.starting_color) :
                 LET c == l.starting_color[i]
                     v == l.result.items[i]
                 IN IF c.kind = "int"
                    THEN /\ v.kind = "int"
                         /\ v.value * b[2] <= c.value * b[1]
                         /\ c.value * b[1] < (v.value + 1) * b[2]
                         /\ 0 <= v.value /\ v.value <= c.value
                    ELSE /\ v.kind = "float"
                         /\ v.value = Times(c.value, b)

\* C30 witness: a product whose fraction is a half or more has been dimmed
\* to the integer below it
C30_Witness ==
    \E t \in Threads :
        /\ th[t].op = "__get_dimmed_color__"
        /\ th[t].pc = "returned"
        /\ th[t].starting_color = <<PyInt(1)>>
        /\ th[t].brightness_adjustment
               = Ratio(BrightnessSteps - 1, BrightnessSteps)
        /\ 2 * (BrightnessSteps - 1) >= BrightnessSteps
        /\ th[t].result.items = <<PyInt(0)>>

\* the step that begins a tick: lines 160-169
TickBegins == rt.pc = "head" /\ rt'.pc = "update"

\* C31: on every tick the renderer is cleared if and only if the index read
\* on this tick differs from the index of the previous tick (0 at first),
\* and the clearing is done when the update of the tick begins.
C31_ClearedIffIndexChanged ==
    [][TickBegins
          => /\ rt'.cleared <=> (rt'.index # rt.index)
             /\ rt'.index = visualizer_index
             /\ pixels' = IF rt'.index # rt.index THEN Cleared ELSE pixels]_vars

\* a tick after the first whose index differs from the one before, at its
\* update with the renderer cleared
C31_Witness ==
    /\ rt.pc = "update"
    /\ rt.ticks > 1
    /\ rt.cleared
    /\ pixels = Cleared

\* C32: on the tick that follows a tick whose update raised, the delta_time
\* handed to the update is the time elapsed since that previous tick began.
C32_DeltaAfterFaultIsElapsed ==
    [][(TickBegins /\ rt.ticks >= 1 /\ rt.fault_tick = rt.ticks)
          => rt'.delta_time = now - rt.tic]_vars

\* C36: the delta_time handed to an update is never negative.
C36_DeltaTimeNeverNegative ==
    rt.pc = "update" => rt.delta_time >= 0

\* more than 60 seconds since the last snapshot, or no snapshot yet
SnapshotDue(timer, at) ==
    timer = << >> \/ (at - timer[1]) * 60 > DebugPixelsSeconds

\* one line for every pixel index 0..pixel_count-1 with its station, or
\* "UNK", and its colour in the buffer
FullSnapshot(lines, buffer) ==
    /\ Len(lines) = NumPixels
    /\ \A i \in 0..(NumPixels - 1) :
          /\ lines[i + 1].index = i
          /\ lines[i + 1].color = buffer[i]
          /\ \/ /\ lines[i + 1].station \in Stations
                /\ airport_render_config[lines[i + 1].station] = i
             \/ /\ lines[i + 1].station = UNK
                /\ \A s \in Stations : airport_render_config[s] # i

\* a snapshot is emitted by this step exactly when it is due, and it is full
SnapshotIffDue ==
    /\ rt'.snapshot <=> SnapshotDue(rt.timer, now)
    /\ rt'.snapshot => /\ FullSnapshot(rt'.lines, pixels')
                       /\ rt'.timer = <<now>>

ChannelSum(color) == color[1] + color[2] + color[3]

\* C39: for pos in 0..255 wheel(pos) has three channels in 0..255 whose sum
\* is 255, one of them 0 at least; for any other pos it is (0, 0, 0).
C39_WheelChannels ==
    \A t \in Threads :
        (th[t].op = "wheel" /\ th[t].pc = "returned")
        => IF th[t].pos \in 0..255
           THEN /\ Len(th[t].result) = 3
                /\ \A c \in 1..3 : th[t].result[c] \in 0..255
                /\ ChannelSum(th[t].result) = 255
                /\ \E c \in 1..3 : th[t].result[c] = 0
           ELSE th[t].result = <<0, 0, 0>>

\* wheel has answered for a position of its last part, with two channels
\* lit
C39_Witness ==
    \E t \in Threads :
        /\ th[t].op = "wheel"
        /\ th[t].pc = "returned"
        /\ th[t].pos \in 171..254
        /\ th[t].result[2] > 0
        /\ th[t].result[3] > 0

\* C37: when a call of __is_cache_valid__ or __set_cache__ has returned or
\* raised, its caller does not hold __cache_lock__.
C37_LockFreeAfterCacheCall ==
    \A t \in Threads :
        (th[t].op \in CacheOps /\ th[t].pc \in {"returned", "raised"})
        => cache_lock # t

\* C34: get_metar_age called without current_time returns the age of the
\* report at the moment of the call, the time of the call less the time the
\* report was observed.
C34_AgeAtTheMomentOfTheCall ==
    \A t \in Threads :
        (/\ th[t].op = "get_metar_age"
         /\ th[t].pc = "returned"
         /\ th[t].report.kind = "dict")
        => th[t].result = Age(now - th[t].report.observed)

\* the step at which is_night answers, for its caller or for line 337 of
\* get_twilight_transition, and the step at which is_daylight answers True
NightAnswered(t) ==
    /\ th[t].pc \in {"nt_start", "nt_after"}
    /\ th'[t].pc = "returned"

DaylightAnsweredTrue(t) ==
    /\ th[t].pc \in {"dl_start", "dl_after"}
    /\ th'[t].pc = "returned"
    /\ th'[t].result \in {Bool(TRUE), Pair(Zero, One)}

\* C38: when is_night answers True, or get_twilight_transition returns the
\* Night pair (0.0, 0.0), is_daylight is False for that station and time;
\* and when is_daylight answers True, is_night is False for them.
C38_NeverDaylightAndNight ==
    [][\A t \in Threads :
          /\ (NightAnswered(t)
                 /\ th'[t].result \in {Bool(TRUE), Pair(Zero, Zero)})
                => ~DaylightAnswer(station_info[th[t].station],
                                   th[t].at_time)
          /\ DaylightAnsweredTrue(t)
                => ~NightAnswer(station_info[th[t].station],
                                th[t].at_time)]_vars

\* get_twilight_transition has returned the Night pair for a time after
\* dusk
C38_Witness ==
    \E t \in Threads :
        /\ th[t].op = "get_twilight_transition"
        /\ th[t].pc = "returned"
        /\ th[t].result = Pair(Zero, Zero)
        /\ th[t].station \in DOMAIN station_info
        /\ station_info[th[t].station].kind = "dict"
        /\ th[t].at_time > station_info[th[t].station].dusk

\* the six twilight times of a record of weather.py, as the list weather2.py
\* works on
SixTimes(record) ==
    List(<<record.dawn, record.sunrise, record.full_light_start,
           record.full_light_end, record.sunset, record.dusk>>)

\* what weather2.py answers to the question asked of weather.py
Weather2Answer(op, light_times, at_time) ==
    IF op = "is_daylight" THEN Bool(IsDaylight2(light_times, at_time))
    ELSE IF op = "is_night" THEN Bool(IsNight2(light_times, at_time))
    ELSE GetTwilightTransition2(light_times, at_time)

\* C35: what is_daylight, is_night and get_twilight_transition of weather.py
\* return for a station's record and a time is what the functions of
\* weather2.py return for the same six times and the same time.
C35_ModulesAgree ==
    \A t \in Threads :
        (/\ th[t].pc = "returned"
         /\ th[t].op \in {"is_daylight", "is_night", "get_twilight_transition"}
         /\ th[t].station \in DOMAIN station_info
         /\ station_info[th[t].station].kind = "dict")
        => th[t].result = Weather2Answer(th[t].op,
                                         SixTimes(station_info[th[t].station]),
                                         th[t].at_time)

=============================================================================
